---------------------------- MODULE Spec2Model ----------------------------
(***************************************************************************)
(* Study tracker: the student dashboard (task store, add / toggle / edit / *)
(* delete handlers, live snapshot, the four buckets) and the admin         *)
(* dashboard (fetchData, fixAdminAccount, handleCreateUser, globalStats),   *)
(* modelled from src/pages/StudentDashboard.tsx.                           *)
(*                                                                         *)
(* Time is counted in ticks, TicksPerDay ticks to a local day; a timestamp *)
(* is a number of ticks since 1970-01-01 00:00 local time, or NaN.         *)
(* Strings the code inspects (date strings, titles) are sequences of       *)
(* one-character strings.                                                  *)
(***************************************************************************)
EXTENDS Integers, Sequences, FiniteSets, TLC

\* ------------------------------------------------------------- bounds ---
\* ticks per local day (the resolution of the clock)
TicksPerDay == 2
\* first day of the window of days the model looks at, in days since
\* 1970-01-01 (20087 is 2024-12-30, so the window crosses a year's end)
FirstDay == 20087
\* number of days in the window
NumDays == 3
\* how many ticks the clock advances during a run
MaxTicks == 1
\* how many times during a run the mounted view starts a backend call from
\* a user action (StudentDashboard: addDoc, updateDoc, deleteDoc;
\* AdminDashboard: Retry Fetch, Initialize Admin Profile, Create Account)
MaxCalls == 2
\* how long a task list the statistics are computed over
MaxListLen == 8

\* ------------------------------------------------------------- values ---
\* the time value of an invalid Date; every comparison with it is false
NaN == -1
\* JavaScript null in a field that otherwise holds a timestamp
Null == -2
\* no signed-in user
NoUser == "null"
\* an optional value: <<>> for null, <<x>> for x
Nothing == <<>>
Some(x) == <<x>>

Days == FirstDay .. (FirstDay + NumDays - 1)
Times == (FirstDay * TicksPerDay) .. ((FirstDay + NumDays) * TicksPerDay - 1)
\* the clock starts at the first tick of the window's second day
NowStart == (FirstDay + 1) * TicksPerDay

\* ----------------------------------------------------- date arithmetic ---
\* date-fns startOfDay(ts).getTime(): local midnight of the day of ts;
\* an invalid date stays invalid
DayOf(ts) == ts \div TicksPerDay
DayStart(day) == day * TicksPerDay
StartOfDayFloor(ts) == IF ts = NaN THEN NaN ELSE DayStart(DayOf(ts))
StartOfDay(ts) == StartOfDayFloor(ts)

\* the civil date <<year, month, day>> of a day number (proleptic Gregorian)
CivilFromDays(n) ==
  LET z == n + 719468
      era == z \div 146097
      doe == z - era * 146097
      yoe == (doe - doe \div 1460 + doe \div 36524 - doe \div 146096) \div 365
      doy == doe - (365 * yoe + yoe \div 4 - yoe \div 100)
      mp == (5 * doy + 2) \div 153
      d == doy - (153 * mp + 2) \div 5 + 1
      m == IF mp < 10 THEN mp + 3 ELSE mp - 9
      y == yoe + era * 400 + (IF m <= 2 THEN 1 ELSE 0)
  IN <<y, m, d>>

DaysFromCivil(y0, m, d) ==
  LET y == IF m <= 2 THEN y0 - 1 ELSE y0
      era == y \div 400
      yoe == y - era * 400
      doy == (153 * (IF m > 2 THEN m - 3 ELSE m + 9) + 2) \div 5 + d - 1
      doe == yoe * 365 + yoe \div 4 - yoe \div 100 + doy
  IN era * 146097 + doe - 719468

IsLeap(y) == (y % 4 = 0 /\ y % 100 # 0) \/ y % 400 = 0
DaysInMonth(y, m) ==
  IF m = 2 THEN (IF IsLeap(y) THEN 29 ELSE 28)
  ELSE IF m \in {4, 6, 9, 11} THEN 30 ELSE 31

\* ------------------------------------------------------------ strings ---
Digits == <<"0", "1", "2", "3", "4", "5", "6", "7", "8", "9">>
DigitChar(k) == Digits[k + 1]
IsDigit(c) == \E k \in 1..10 : Digits[k] = c
DigitVal(c) == (CHOOSE k \in 1..10 : Digits[k] = c) - 1
\* UTF-16 code unit of the characters a date string or a title holds
CharCode(c) ==
  IF c = " " THEN 32
  ELSE IF c = "-" THEN 45
  ELSE IF IsDigit(c) THEN 48 + DigitVal(c)
  ELSE 97

\* JavaScript a < b on strings: code units compared left to right, a proper
\* prefix is smaller
RECURSIVE StrLess(_, _)
StrLess(a, b) ==
  IF b = <<>> THEN FALSE
  ELSE IF a = <<>> THEN TRUE
  ELSE IF CharCode(Head(a)) # CharCode(Head(b))
       THEN CharCode(Head(a)) < CharCode(Head(b))
       ELSE StrLess(Tail(a), Tail(b))

Pad2(k) == <<DigitChar(k \div 10), DigitChar(k % 10)>>
Pad4(k) == <<DigitChar((k \div 1000) % 10), DigitChar((k \div 100) % 10),
             DigitChar((k \div 10) % 10), DigitChar(k % 10)>>

\* date-fns format(ts, 'yyyy-MM-dd') of a valid timestamp
FormatDay(day) ==
  LET c == CivilFromDays(day)
  IN Pad4(c[1]) \o <<"-">> \o Pad2(c[2]) \o <<"-">> \o Pad2(c[3])
Format(ts) == FormatDay(DayOf(ts))

Num2(s, i) == DigitVal(s[i]) * 10 + DigitVal(s[i + 1])
Num4(s, i) == Num2(s, i) * 100 + Num2(s, i + 2)

\* date-fns parseISO(s).getTime() of a date-only string: local midnight of
\* the day, NaN when s is not a valid yyyy-MM-dd date (the empty string too)
ParseISO(s) ==
  IF /\ Len(s) = 10
     /\ s[5] = "-" /\ s[8] = "-"
     /\ \A i \in {1, 2, 3, 4, 6, 7, 9, 10} : IsDigit(s[i])
  THEN LET y == Num4(s, 1)
           m == Num2(s, 6)
           d == Num2(s, 9)
       IN IF m \in 1..12 /\ d \in 1..DaysInMonth(y, m)
          THEN DayStart(DaysFromCivil(y, m, d))
          ELSE NaN
  ELSE NaN

\* String.prototype.trim over the characters a title holds
RECURSIVE TrimLeft(_)
TrimLeft(s) == IF s # <<>> /\ Head(s) = " " THEN TrimLeft(Tail(s)) ELSE s
RECURSIVE TrimRight(_)
TrimRight(s) ==
  IF s # <<>> /\ s[Len(s)] = " " THEN TrimRight(SubSeq(s, 1, Len(s) - 1)) ELSE s
Trim(s) == TrimRight(TrimLeft(s))

\* what the user can type into a title field and pick in a date field
\* (a date input's value is a yyyy-MM-dd string, or empty when cleared)
TitleInputs == {<<" ">>, <<" ", "a", " ">>}
\* the day before the run starts, the day it starts, the day after, cleared
DateInputs == {FormatDay(DayOf(NowStart) + k) : k \in {-1, 0, 1}} \cup {<<>>}

\* -------------------------------------------------------------- state ---
VARIABLES
  view,            \* which dashboard is mounted: "student" or "admin"
  now,             \* Date.now()
  user,            \* useAuth().user: the uid signed in on the primary app
  store,           \* the tasks collection: document id -> document fields
  nextId,          \* the next document id the backend hands out
  \* StudentDashboard
  calls,           \* how many backend calls user actions have started
  pending,         \* the view's write calls in flight, oldest first (the
                   \* backend applies one client's writes in the order issued)
  tasks,           \* useState tasks: the last snapshot, sorted
  isAdding,
  taskToEdit, editModalOpen, isSavingEdit,
  taskToDelete, deleteModalOpen,
  \* AdminDashboard
  students, allTasks,          \* useState: the last fetched lists
  loading, permissionError,
  fetch,           \* fetchData calls in flight: caller -> what it awaits
  fixingAccount,
  pcFix,           \* what fixAdminAccount awaits
  isCreatingUser, createUserError, createUserSuccess,
  pcCreate,        \* what handleCreateUser awaits
  createReq,       \* the form values handleCreateUser closed over
  apps,            \* getApps(): the names of the initialized secondary apps
  secondaryUser,   \* getAuth(secondaryApp).currentUser
  lastDeleteApp,   \* how the last deleteApp call ended
  creds,           \* the identity service: the emails that have a credential
  usersCol,        \* the users collection: uid -> profile
  selectedStudent, \* useState: the student whose detail panel is open
  studentTasks,    \* useState: that student's tasks, as of the selection
  chartRange,      \* useState: the range of the detail panel's chart
  searchQuery,     \* useState: the text typed into the directory's search
  sortOption,      \* useState: the directory's sort option
  taskSearchQuery, \* useState: the text typed into the task table's search
  taskFilterStatus,\* useState: the task table's status filter
  taskPage,        \* useState: the task table's page
  subs,            \* the live onSnapshot listeners: the uid each one queries
  effectUser,      \* the user the subscription effect last ran with
  \* derived values as last rendered
  shown

commonVars == <<view, now, user, store, nextId>>
editVars == <<taskToEdit, editModalOpen, isSavingEdit>>
delVars == <<taskToDelete, deleteModalOpen>>
studentVars == <<pending, tasks, isAdding, editVars, delVars>>
fetchVars == <<students, allTasks, loading, permissionError, fetch>>
fixVars == <<fixingAccount, pcFix>>
createVars == <<isCreatingUser, createUserError, createUserSuccess, pcCreate, createReq,
                apps, secondaryUser, lastDeleteApp, creds>>
adminVars == <<fetchVars, fixVars, createVars, usersCol>>
listVars == <<searchQuery, sortOption, taskSearchQuery, taskFilterStatus, taskPage>>
detailVars == <<selectedStudent, studentTasks, chartRange, listVars>>
subVars == <<subs, effectUser>>
vars == <<commonVars, calls, studentVars, adminVars, detailVars, subVars, shown>>

StudentUid == "u1"

\* ------------------------------------------------------ task documents ---
\* updateDoc(ref, fields): the named fields are replaced or added, the
\* others kept
Merge(docFields, fields) ==
  [f \in DOMAIN docFields \cup DOMAIN fields |->
     IF f \in DOMAIN fields THEN fields[f] ELSE docFields[f]]

\* { id: doc.id, ...doc.data() }
WithId(id, docFields) == Merge([id |-> id], docFields)

\* the documents a query returns, in document-id order
RECURSIVE DocsOf(_, _)
DocsOf(st, ids) ==
  IF ids = {} THEN <<>>
  ELSE LET i == CHOOSE x \in ids : \A y \in ids : x <= y
       IN <<WithId(i, st[i])>> \o DocsOf(st, ids \ {i})

\* the documents newest first instead
SortByCreatedAtReversed(s) == [i \in 1..Len(s) |-> s[Len(s) + 1 - i]]

\* Array.prototype.sort((a, b) => a.createdAt - b.createdAt): stable,
\* ascending by creation time
RECURSIVE InsertByCreatedAt(_, _)
InsertByCreatedAt(t, sorted) ==
  IF sorted = <<>> THEN <<t>>
  ELSE IF sorted[Len(sorted)].createdAt <= t.createdAt
       THEN Append(sorted, t)
       ELSE Append(InsertByCreatedAt(t, SubSeq(sorted, 1, Len(sorted) - 1)),
                   sorted[Len(sorted)])
RECURSIVE SortByCreatedAt(_)
SortByCreatedAt(s) ==
  IF s = <<>> THEN <<>>
  ELSE InsertByCreatedAt(s[Len(s)], SortByCreatedAt(SubSeq(s, 1, Len(s) - 1)))

\* query(collection(db, 'tasks'), where('userId', '==', uid))
UserTaskIds(st, uid) == {i \in DOMAIN st : st[i].userId = uid}

\* ------------------------------------------------- StudentDashboard ---
\* the clock advances
Tick ==
  /\ now < NowStart + MaxTicks
  /\ now' = now + 1
  /\ UNCHANGED <<adminVars, shown, detailVars, subVars, view, user, store, nextId, calls, studentVars>>

\* the edit modal is a full-screen overlay: nothing under it can be clicked
Reachable == view = "student" /\ ~editModalOpen

\* a user action starts a backend call
Calls == calls < MaxCalls /\ calls' = calls + 1

\* a write call is issued
Issue(req) == Calls /\ pending' = Append(pending, req)

\* the oldest write call in flight settles
Settles(kind) == pending # <<>> /\ Head(pending).kind = kind
Settled == pending' = Tail(pending) /\ UNCHANGED calls

\* onSnapshot callback: the user's documents, sorted oldest first
SnapshotTasks(st, uid) == SortByCreatedAt(DocsOf(st, UserTaskIds(st, uid)))
Snapshot ==
  /\ \E i \in 1..Len(subs) :
       /\ tasks # SnapshotTasks(store, subs[i])
       /\ tasks' = SnapshotTasks(store, subs[i])
  /\ UNCHANGED <<adminVars, shown, detailVars, subVars, commonVars, calls, pending, isAdding, editVars, delVars>>

\* who can be signed in on this browser
SessionUsers == {NoUser, StudentUid, "u2"}

\* useAuth().user changes: a sign-in, a sign-out, another account
UserChanges ==
  /\ view = "student"
  /\ \E u \in SessionUsers \ {user} : user' = u
  /\ UNCHANGED <<view, now, store, nextId, calls, studentVars, adminVars, detailVars, subVars,
                 shown>>

\* the subscription effect's body: if (!user) return; onSnapshot(q, ...)
Subscribe(listeners, uid) == IF uid = NoUser THEN listeners ELSE Append(listeners, uid)

\* a cleanup that detaches nothing
CleanupKeeps(listeners, ranWith) == listeners

\* the effect's cleanup, () => unsubscribe(): the listener the effect
\* created, when it created one, is detached
Cleanup(listeners, ranWith) ==
  IF \E i \in 1..Len(listeners) : listeners[i] = ranWith
  THEN LET i == CHOOSE k \in 1..Len(listeners) :
                  listeners[k] = ranWith /\ \A j \in 1..(k - 1) : listeners[j] # ranWith
       IN SubSeq(listeners, 1, i - 1) \o SubSeq(listeners, i + 1, Len(listeners))
  ELSE listeners

\* useEffect(..., [user]) after a render with a changed user: the previous
\* run's cleanup, then the body
RunEffect ==
  /\ view = "student"
  /\ effectUser # user
  /\ subs' = Subscribe(Cleanup(subs, effectUser), user)
  /\ effectUser' = user
  /\ UNCHANGED <<commonVars, calls, studentVars, adminVars, detailVars, shown>>

\* the view is torn down (pending effects are flushed first): the cleanup
Unmount ==
  /\ view = "student"
  /\ effectUser = user
  /\ view' = "unmounted"
  /\ subs' = Cleanup(subs, effectUser)
  /\ UNCHANGED <<now, user, store, nextId, calls, studentVars, adminVars, detailVars,
                 effectUser, shown>>

\* the document handleAddTask passes to addDoc
AddTaskDoc(uid, title, dateStr, t) ==
  [userId |-> uid,
   title |-> Trim(title),
   dueDate |-> StartOfDay(ParseISO(dateStr)),
   completed |-> FALSE,
   createdAt |-> t]

\* a past-date check that turns today away as well
IsPastDateStrInclusive(dateStr, t) == ~StrLess(Format(t), dateStr)

\* handleAddTask's past-date check: newTaskDate < todayStr
IsPastDateStr(dateStr, t) == StrLess(dateStr, Format(t))

\* early returns that do not look at the user
AddTaskReturnsEarlySignedOut(uid, title, dateStr, t) ==
  Trim(title) = <<>> \/ IsPastDateStr(dateStr, t)

\* handleAddTask's early returns
AddTaskReturnsEarly(uid, title, dateStr, t) ==
  uid = NoUser \/ Trim(title) = <<>> \/ IsPastDateStr(dateStr, t)

\* handleAddTask up to its await, with the form holding newTaskTitle and
\* newTaskDate: the early returns, then setIsAdding(true) and addDoc
HandleAddTask ==
  /\ Reachable
  /\ ~isAdding
  /\ \E newTaskTitle \in TitleInputs, newTaskDate \in DateInputs :
       IF AddTaskReturnsEarly(user, newTaskTitle, newTaskDate, now)
       THEN UNCHANGED <<calls, pending, isAdding>>
       ELSE /\ isAdding' = TRUE
            /\ Issue([kind |-> "add",
                      newTaskTitle |-> newTaskTitle,
                      newTaskDate |-> newTaskDate,
                      doc |-> AddTaskDoc(user, newTaskTitle, newTaskDate, now)])
  /\ UNCHANGED <<adminVars, shown, detailVars, subVars, commonVars, tasks, editVars, delVars>>

\* addDoc resolves: the document exists; the form is reset; finally
AddDocResolve ==
  /\ Settles("add")
  /\ Settled
  /\ store' = [i \in DOMAIN store \cup {nextId} |->
                 IF i = nextId THEN Head(pending).doc ELSE store[i]]
  /\ nextId' = nextId + 1
  /\ isAdding' = FALSE
  /\ UNCHANGED <<adminVars, shown, detailVars, subVars, view, now, user, tasks, editVars, delVars>>

\* addDoc rejects: catch (alert), finally
AddDocReject ==
  /\ Settles("add")
  /\ Settled
  /\ isAdding' = FALSE
  /\ UNCHANGED <<adminVars, shown, detailVars, subVars, commonVars, tasks, editVars, delVars>>

\* a toggle that stamps completedAt whichever way it flips
ToggleFieldsStamped(task, t) == [completed |-> ~task.completed, completedAt |-> t]

\* a toggle that writes the due date it was shown back as well
ToggleFieldsWithDue(task, t) ==
  [completed |-> ~task.completed,
   completedAt |-> IF ~task.completed THEN t ELSE Null,
   dueDate |-> task.dueDate]

\* the fields toggleTask passes to updateDoc
ToggleFields(task, t) ==
  [completed |-> ~task.completed,
   completedAt |-> IF ~task.completed THEN t ELSE Null]

\* toggleTask(task) up to its await, for a task shown in a column
ToggleTask ==
  /\ Reachable
  /\ \E i \in 1..Len(tasks) :
       Issue([kind |-> "toggle", id |-> tasks[i].id,
              fields |-> ToggleFields(tasks[i], now)])
  /\ UNCHANGED <<adminVars, shown, detailVars, subVars, commonVars, tasks, isAdding, editVars, delVars>>

\* updateDoc of a toggle resolves
ToggleResolve ==
  /\ Settles("toggle")
  /\ Settled
  /\ Head(pending).id \in DOMAIN store
  /\ store' = [store EXCEPT ![Head(pending).id] = Merge(@, Head(pending).fields)]
  /\ UNCHANGED <<adminVars, shown, detailVars, subVars, view, now, user, nextId, tasks, isAdding, editVars, delVars>>

\* updateDoc of a toggle rejects (no such document, or the backend refuses):
\* catch (console.error)
ToggleReject ==
  /\ Settles("toggle")
  /\ Settled
  /\ UNCHANGED <<adminVars, shown, detailVars, subVars, commonVars, tasks, isAdding, editVars, delVars>>

\* openEditModal(task): format throws on an invalid dueDate, after
\* setTaskToEdit and setEditTitle were queued and before setEditModalOpen
OpenEditModal ==
  /\ Reachable
  /\ \E i \in 1..Len(tasks) :
       /\ taskToEdit' = Some(tasks[i])
       /\ editModalOpen' = (tasks[i].dueDate # NaN)
  /\ UNCHANGED <<adminVars, shown, detailVars, subVars, commonVars, calls, pending, tasks, isAdding, isSavingEdit, delVars>>

\* the edit modal's X and Cancel buttons
CloseEditModal ==
  /\ view = "student"
  /\ editModalOpen
  /\ editModalOpen' = FALSE
  /\ UNCHANGED <<adminVars, shown, detailVars, subVars, commonVars, calls, pending, tasks, isAdding, taskToEdit, isSavingEdit,
                 delVars>>

\* the fields handleUpdateTask passes to updateDoc
UpdateFields(title, dateStr) ==
  [title |-> Trim(title), dueDate |-> StartOfDay(ParseISO(dateStr))]

\* early returns that do not look at the title
UpdateTaskReturnsEarlyNoTask(toEdit, title) == toEdit = Nothing

\* handleUpdateTask's early returns
UpdateTaskReturnsEarly(toEdit, title) == toEdit = Nothing \/ Trim(title) = <<>>

\* handleUpdateTask up to its await, with the form holding editTitle and
\* editDate (what openEditModal put there, or what the user typed since)
HandleUpdateTask ==
  /\ view = "student"
  /\ editModalOpen
  /\ ~isSavingEdit
  /\ \E editTitle \in TitleInputs, editDate \in DateInputs :
       IF UpdateTaskReturnsEarly(taskToEdit, editTitle)
       THEN UNCHANGED <<calls, pending, isSavingEdit>>
       ELSE /\ isSavingEdit' = TRUE
            /\ Issue([kind |-> "update", id |-> taskToEdit[1].id,
                      editTitle |-> editTitle, editDate |-> editDate,
                      fields |-> UpdateFields(editTitle, editDate)])
  /\ UNCHANGED <<adminVars, shown, detailVars, subVars, commonVars, tasks, isAdding, taskToEdit, editModalOpen, delVars>>

\* updateDoc of the edit resolves: the modal closes, finally
UpdateResolve ==
  /\ Settles("update")
  /\ Settled
  /\ Head(pending).id \in DOMAIN store
  /\ store' = [store EXCEPT ![Head(pending).id] = Merge(@, Head(pending).fields)]
  /\ editModalOpen' = FALSE
  /\ taskToEdit' = Nothing
  /\ isSavingEdit' = FALSE
  /\ UNCHANGED <<adminVars, shown, detailVars, subVars, view, now, user, nextId, tasks, isAdding, delVars>>

\* updateDoc of the edit rejects: catch (alert), finally
UpdateReject ==
  /\ Settles("update")
  /\ Settled
  /\ isSavingEdit' = FALSE
  /\ UNCHANGED <<adminVars, shown, detailVars, subVars, commonVars, tasks, isAdding, taskToEdit, editModalOpen, delVars>>

\* confirmDeleteTask(task.id)
ConfirmDeleteTask ==
  /\ Reachable
  /\ \E i \in 1..Len(tasks) :
       /\ taskToDelete' = Some(tasks[i].id)
       /\ deleteModalOpen' = TRUE
  /\ UNCHANGED <<adminVars, shown, detailVars, subVars, commonVars, calls, pending, tasks, isAdding, editVars>>

\* the confirmation modal's onClose
CloseDeleteModal ==
  /\ view = "student"
  /\ deleteModalOpen
  /\ deleteModalOpen' = FALSE
  /\ UNCHANGED <<adminVars, shown, detailVars, subVars, commonVars, calls, pending, tasks, isAdding, editVars, taskToDelete>>

\* handleDeleteTask up to its await
HandleDeleteTask ==
  /\ view = "student"
  /\ deleteModalOpen
  /\ IF taskToDelete = Nothing
     THEN UNCHANGED <<calls, pending>>
     ELSE Issue([kind |-> "delete", id |-> taskToDelete[1]])
  /\ UNCHANGED <<adminVars, shown, detailVars, subVars, commonVars, tasks, isAdding, editVars, delVars>>

\* deleteDoc resolves (deleting a missing document succeeds too), finally
DeleteResolve ==
  /\ Settles("delete")
  /\ Settled
  /\ store' = [i \in DOMAIN store \ {Head(pending).id} |-> store[i]]
  /\ taskToDelete' = Nothing
  /\ UNCHANGED <<adminVars, shown, detailVars, subVars, view, now, user, nextId, tasks, isAdding, editVars, deleteModalOpen>>

\* a rejected deleteDoc without the finally
DeleteRejectKeepsTask ==
  /\ Settles("delete")
  /\ Settled
  /\ UNCHANGED <<adminVars, shown, detailVars, subVars, commonVars, tasks, isAdding, editVars, delVars>>

\* deleteDoc rejects: catch (alert), finally
DeleteReject ==
  /\ Settles("delete")
  /\ Settled
  /\ taskToDelete' = Nothing
  /\ UNCHANGED <<adminVars, shown, detailVars, subVars, commonVars, tasks, isAdding, editVars, deleteModalOpen>>

\* --------------------------------------------------- AdminDashboard ---
AdminUid == "admin"
Callers == {"mount", "retry", "fix", "create"}

\* the profiles a users query returns: the documents whose role matches
StudentsOf(col) == SelectSeq(col, LAMBDA u : u.role = "STUDENT")

\* setDoc(doc(db, 'users', uid), profile): the document is created or replaced
RECURSIVE SetUserDoc(_, _)
SetUserDoc(col, profile) ==
  IF col = <<>> THEN <<profile>>
  ELSE IF Head(col).uid = profile.uid THEN <<profile>> \o Tail(col)
       ELSE <<Head(col)>> \o SetUserDoc(Tail(col), profile)

\* fetchData up to its first await
FetchStarts(caller) ==
  /\ loading' = TRUE
  /\ permissionError' = FALSE
  /\ fetch' = [fetch EXCEPT ![caller] = "users"]

\* the Retry Fetch button of the Access Denied screen
RetryFetch ==
  /\ view = "admin"
  /\ permissionError
  /\ fetch["retry"] = "idle"
  /\ Calls
  /\ FetchStarts("retry")
  /\ UNCHANGED <<commonVars, studentVars, students, allTasks, fixVars, createVars, usersCol,
                 shown, detailVars, subVars>>

\* getDocs(usersQ) resolves: setStudents, then the tasks query is issued
FetchUsersResolve ==
  /\ \E c \in Callers :
       /\ fetch[c] = "users"
       /\ fetch' = [fetch EXCEPT ![c] = "tasks"]
  /\ students' = StudentsOf(usersCol)
  /\ UNCHANGED <<commonVars, calls, studentVars, allTasks, loading, permissionError, fixVars,
                 createVars, usersCol, shown, detailVars, subVars>>

\* getDocs(collection(db, 'tasks')) resolves: setAllTasks, finally
FetchTasksResolve ==
  /\ \E c \in Callers :
       /\ fetch[c] = "tasks"
       /\ fetch' = [fetch EXCEPT ![c] = "idle"]
  /\ allTasks' = DocsOf(store, DOMAIN store)
  /\ loading' = FALSE
  /\ UNCHANGED <<commonVars, calls, studentVars, students, permissionError, fixVars, createVars,
                 usersCol, shown, detailVars, subVars>>

\* the phrase fetchData's catch looks for in the error's message
InsufficientPermissions == "Missing or insufficient permissions"

\* String.prototype.includes on a message held as a sequence of fragments
Includes(message, phrase) == \E i \in 1..Len(message) : message[i] = phrase

\* the errors a getDocs of fetchData can reject with: a code, and a message
\* that may be missing
FetchErrors ==
  {[code |-> "permission-denied", message |-> Nothing],
   [code |-> "unknown", message |-> Some(<<"FirebaseError: ", InsufficientPermissions, ".">>)],
   [code |-> "unavailable", message |-> Some(<<"The client is offline.">>)]}

\* a catch that looks at the error's code only
IsPermissionDeniedByCode(err) == err.code = "permission-denied"

\* fetchData's catch: which errors raise the Access Denied screen
\* (err.message?.includes(...) is undefined when there is no message)
IsPermissionDenied(err) ==
  \/ err.code = "permission-denied"
  \/ err.message # Nothing /\ Includes(err.message[1], InsufficientPermissions)

\* a fetchData without its finally
FetchRejectKeepsLoading ==
  /\ \E c \in Callers, err \in FetchErrors :
       /\ fetch[c] \in {"users", "tasks"}
       /\ fetch' = [fetch EXCEPT ![c] = "idle"]
       /\ shown' = Some([console |-> err])
       /\ permissionError' = (IsPermissionDenied(err) \/ permissionError)
  /\ UNCHANGED <<commonVars, calls, studentVars, students, allTasks, loading, fixVars,
                 createVars, usersCol, detailVars, subVars>>

\* either query rejects: catch (console.error, the flag), finally
FetchReject ==
  /\ \E c \in Callers, err \in FetchErrors :
       /\ fetch[c] \in {"users", "tasks"}
       /\ fetch' = [fetch EXCEPT ![c] = "idle"]
       /\ shown' = Some([console |-> err])
       /\ permissionError' = (IsPermissionDenied(err) \/ permissionError)
  /\ loading' = FALSE
  /\ UNCHANGED <<commonVars, calls, studentVars, students, allTasks, fixVars, createVars, usersCol,
                 detailVars, subVars>>

\* the profile fixAdminAccount writes
AdminProfile(uid, t) ==
  [uid |-> uid, email |-> <<"r", "@", "s", ".", "t">>, displayName |-> "Admin User",
   role |-> "ADMIN", bio |-> "Administrator", createdAt |-> t]

\* fixAdminAccount up to its first await (the Initialize Admin Profile button
\* of the Access Denied screen)
FixAdminAccount ==
  /\ view = "admin"
  /\ permissionError
  /\ ~fixingAccount
  /\ IF user = NoUser
     THEN UNCHANGED <<calls, fixVars, usersCol>>
     ELSE /\ Calls
          /\ fixingAccount' = TRUE
          /\ pcFix' = "setDoc"
          /\ UNCHANGED usersCol
  /\ UNCHANGED <<commonVars, studentVars, fetchVars, createVars, shown, detailVars, subVars>>

\* setDoc resolves, refreshProfile is called
FixSetDocResolve ==
  /\ pcFix = "setDoc"
  /\ usersCol' = SetUserDoc(usersCol, AdminProfile(user, now))
  /\ pcFix' = "refreshProfile"
  /\ UNCHANGED <<commonVars, calls, studentVars, fetchVars, fixingAccount, createVars, shown, detailVars, subVars>>

\* refreshProfile resolves, fetchData is called
FixRefreshResolve ==
  /\ pcFix = "refreshProfile"
  /\ fetch["fix"] = "idle"
  /\ pcFix' = "fetchData"
  /\ FetchStarts("fix")
  /\ UNCHANGED <<commonVars, calls, studentVars, students, allTasks, fixingAccount, createVars,
                 usersCol, shown, detailVars, subVars>>

\* setDoc or refreshProfile rejects: catch (alert), finally
FixReject ==
  /\ pcFix \in {"setDoc", "refreshProfile"}
  /\ pcFix' = "idle"
  /\ fixingAccount' = FALSE
  /\ UNCHANGED <<commonVars, calls, studentVars, fetchVars, createVars, usersCol, shown, detailVars, subVars>>

\* the awaited fetchData returned (it never throws): finally
FixFinish ==
  /\ pcFix = "fetchData"
  /\ fetch["fix"] = "idle"
  /\ pcFix' = "idle"
  /\ fixingAccount' = FALSE
  /\ UNCHANGED <<commonVars, calls, studentVars, fetchVars, createVars, usersCol, shown, detailVars, subVars>>

\* an address check that looks for the @ only
IsValidEmailAt(e) == \E i \in 1..Len(e) : e[i] = "@"

\* isValidEmail: /^[^\s@]+@[^\s@]+\.[^\s@]+$/
IsValidEmail(e) ==
  \E i \in 1..Len(e), j \in 1..Len(e) :
    /\ e[i] = "@" /\ e[j] = "."
    /\ 1 < i /\ i + 1 < j /\ j < Len(e)
    /\ \A k \in (1..Len(e)) \ {i} : e[k] \notin {" ", "@"}

\* the shortest password handleCreateUser accepts
MinPasswordLen == 6

\* what the admin can type into the Add User form
EmailInputs == {<<"a", "@", "b", ".", "c">>, <<"a", "@", "b">>}
PasswordInputs == {[i \in 1..n |-> "x"] : n \in {MinPasswordLen - 1, MinPasswordLen}}
RoleInputs == {"STUDENT", "ADMIN"}

\* the uid the identity service gives the n-th credential it creates
NewUid(n) == IF n = 1 THEN "u2" ELSE "u3"

SecondaryApp == "SecondaryApp"

\* the auth instance handleCreateUser creates the credential on and signs
\* out of: "secondary" is getAuth(secondaryApp), "primary" the app's own auth
SecondaryAuth == "secondary"
PrimaryAuth == "primary"
CreateUserAuthPrimary == PrimaryAuth
CreateUserAuth == SecondaryAuth

\* createUserWithEmailAndPassword(auth, ...) signs the new user in on auth;
\* signOut(auth) signs auth out
SignedIn(authName, uid) ==
  IF authName = PrimaryAuth
  THEN user' = uid /\ UNCHANGED secondaryUser
  ELSE secondaryUser' = uid /\ UNCHANGED user

\* the errors the calls of handleCreateUser reject with: the message, and
\* which of the phrases the catch looks for it includes
EmailInUse ==
  [message |-> "Firebase: Error (auth/email-already-in-use).",
   includes |-> {"email-already-in-use"}]
WeakPassword ==
  [message |-> "Firebase: Password should be at least 6 characters (auth/weak-password).",
   includes |-> {"weak-password"}]
MissingPermissions ==
  [message |-> "Missing or insufficient permissions.", includes |-> {InsufficientPermissions}]
NetworkRequestFailed ==
  [message |-> "Firebase: Error (auth/network-request-failed).", includes |-> {}]

\* a message the catch puts in place of the error's: it includes no phrase
FixedMessage(text) == [message |-> text, includes |-> {}]

\* handleCreateUser's catch: the message shown for an error, each test made
\* on the message as the test before left it
CreateUserErrorMessage(err) ==
  LET inUse == IF "email-already-in-use" \in err.includes
               THEN FixedMessage("That email is already registered.") ELSE err
      weak == IF "weak-password" \in inUse.includes
              THEN FixedMessage("Password is too weak.") ELSE inUse
      denied == IF InsufficientPermissions \in weak.includes
                THEN FixedMessage("Access Denied: Please update Firestore Rules to allow Admins to create users.")
                ELSE weak
  IN denied.message

\* the profile handleCreateUser writes for the new user
NewUserProfile(uid, req, t) ==
  [uid |-> uid, email |-> req.email, displayName |-> "n", role |-> req.role,
   bio |-> IF req.role = "ADMIN" THEN "Administrator" ELSE "Student", createdAt |-> t]

\* handleCreateUser up to its first await: validation, setIsCreatingUser(true),
\* the secondary app is looked up or initialized, the credential is requested
HandleCreateUser ==
  /\ view = "admin"
  /\ ~permissionError
  /\ ~isCreatingUser
  /\ createUserSuccess' = ""
  /\ \E email \in EmailInputs, password \in PasswordInputs, role \in RoleInputs :
       IF ~IsValidEmail(email)
       THEN /\ createUserError' = "Please enter a valid email address."
            /\ UNCHANGED <<calls, isCreatingUser, pcCreate, createReq, apps>>
       ELSE IF Len(password) < MinPasswordLen
       THEN /\ createUserError' = "Password must be at least 6 characters."
            /\ UNCHANGED <<calls, isCreatingUser, pcCreate, createReq, apps>>
       ELSE /\ Calls
            /\ createUserError' = ""
            /\ isCreatingUser' = TRUE
            /\ apps' = apps \cup {SecondaryApp}
            /\ pcCreate' = "createUser"
            /\ createReq' = Some([email |-> email, password |-> password, role |-> role])
  /\ UNCHANGED <<commonVars, studentVars, fetchVars, fixVars, secondaryUser, lastDeleteApp,
                 creds, usersCol, shown, detailVars, subVars>>

\* finally: deleteApp(secondaryApp) is called when the app was obtained
CreateUserFinally == pcCreate' = "deleteApp"

\* a catch that returns without the finally
CreateUserCatchLeaks(err) ==
  /\ createUserError' = CreateUserErrorMessage(err)
  /\ pcCreate' = "idle"

\* catch, then finally
CreateUserCatch(err) ==
  /\ createUserError' = CreateUserErrorMessage(err)
  /\ CreateUserFinally

\* createUserWithEmailAndPassword resolves: the credential exists, the new
\* user is signed in on the auth instance, setDoc is called
CreateCredentialResolve ==
  /\ pcCreate = "createUser"
  /\ createReq[1].email \notin creds
  /\ creds' = creds \cup {createReq[1].email}
  /\ SignedIn(CreateUserAuth, NewUid(Cardinality(creds) + 1))
  /\ pcCreate' = "setDoc"
  /\ createReq' = Some(Merge(createReq[1], [uid |-> NewUid(Cardinality(creds) + 1),
                                            createdAt |-> now]))
  /\ UNCHANGED <<view, now, store, nextId, calls, studentVars, fetchVars, fixVars, isCreatingUser,
                 createUserError, createUserSuccess, apps, lastDeleteApp, usersCol, shown, detailVars, subVars>>

\* createUserWithEmailAndPassword rejects
CreateCredentialReject ==
  /\ pcCreate = "createUser"
  /\ \E err \in {EmailInUse, WeakPassword} :
       /\ (err = EmailInUse) <=> (createReq[1].email \in creds)
       /\ CreateUserCatch(err)
  /\ UNCHANGED <<commonVars, calls, studentVars, fetchVars, fixVars, isCreatingUser,
                 createUserSuccess, createReq, apps, secondaryUser, lastDeleteApp, creds,
                 usersCol, shown, detailVars, subVars>>

\* setDoc of the profile resolves, signOut is called
CreateProfileResolve ==
  /\ pcCreate = "setDoc"
  /\ usersCol' = SetUserDoc(usersCol,
                            NewUserProfile(createReq[1].uid, createReq[1],
                                           createReq[1].createdAt))
  /\ pcCreate' = "signOut"
  /\ UNCHANGED <<commonVars, calls, studentVars, fetchVars, fixVars, isCreatingUser,
                 createUserError, createUserSuccess, createReq, apps, secondaryUser,
                 lastDeleteApp, creds, shown, detailVars, subVars>>

\* setDoc of the profile rejects
CreateProfileReject ==
  /\ pcCreate = "setDoc"
  /\ CreateUserCatch(MissingPermissions)
  /\ UNCHANGED <<commonVars, calls, studentVars, fetchVars, fixVars, isCreatingUser,
                 createUserSuccess, createReq, apps, secondaryUser, lastDeleteApp, creds,
                 usersCol, shown, detailVars, subVars>>

\* signOut resolves: the success message, the form reset, fetchData is called
CreateSignOutResolve ==
  /\ pcCreate = "signOut"
  /\ fetch["create"] = "idle"
  /\ SignedIn(CreateUserAuth, NoUser)
  /\ createUserSuccess' = "created successfully!"
  /\ pcCreate' = "fetchData"
  /\ FetchStarts("create")
  /\ UNCHANGED <<view, now, store, nextId, calls, studentVars, students, allTasks, fixVars,
                 isCreatingUser, createUserError, createReq, apps, lastDeleteApp, creds,
                 usersCol, shown, detailVars, subVars>>

\* signOut rejects
CreateSignOutReject ==
  /\ pcCreate = "signOut"
  /\ CreateUserCatch(NetworkRequestFailed)
  /\ UNCHANGED <<commonVars, calls, studentVars, fetchVars, fixVars, isCreatingUser,
                 createUserSuccess, createReq, apps, secondaryUser, lastDeleteApp, creds,
                 usersCol, shown, detailVars, subVars>>

\* the awaited fetchData returned (it never throws): the close timer is set,
\* then finally
CreateRefreshed ==
  /\ pcCreate = "fetchData"
  /\ fetch["create"] = "idle"
  /\ CreateUserFinally
  /\ UNCHANGED <<commonVars, calls, studentVars, fetchVars, fixVars, isCreatingUser,
                 createUserError, createUserSuccess, createReq, apps, secondaryUser,
                 lastDeleteApp, creds, usersCol, shown, detailVars, subVars>>

\* deleteApp resolves: the app and its auth instance are gone;
\* setIsCreatingUser(false)
DeleteAppResolve ==
  /\ pcCreate = "deleteApp"
  /\ apps' = apps \ {SecondaryApp}
  /\ secondaryUser' = NoUser
  /\ lastDeleteApp' = "deleted"
  /\ isCreatingUser' = FALSE
  /\ pcCreate' = "idle"
  /\ createReq' = Nothing
  /\ UNCHANGED <<commonVars, calls, studentVars, fetchVars, fixVars, createUserError,
                 createUserSuccess, creds, usersCol, shown, detailVars, subVars>>

\* deleteApp rejects: the inner catch (console.warn); setIsCreatingUser(false)
DeleteAppReject ==
  /\ pcCreate = "deleteApp"
  /\ lastDeleteApp' = "failed"
  /\ isCreatingUser' = FALSE
  /\ pcCreate' = "idle"
  /\ createReq' = Nothing
  /\ UNCHANGED <<commonVars, calls, studentVars, fetchVars, fixVars, createUserError,
                 createUserSuccess, apps, secondaryUser, creds, usersCol, shown, detailVars, subVars>>

\* ----------------------------------------------------- derived data ---
\* date-fns isToday, isFuture, isPast at time t; false of an invalid date
IsToday(ts, t) == ts # NaN /\ DayOf(ts) = DayOf(t)
IsFuture(ts, t) == ts # NaN /\ ts > t
IsPast(ts, t) == ts # NaN /\ ts < t

\* the percentage cut off instead of rounded
TruncPercent(num, den) == (100 * num) \div den

\* Math.round(num / den * 100) for 0 <= num <= den, den > 0: the nearest
\* integer, a half rounded up
RoundPercent(num, den) == (200 * num + den) \div (2 * den)

CountCompleted(ts) == Len(SelectSeq(ts, LAMBDA x : x.completed))

\* StudentDashboard: completedCount and completionRate
CompletionRate(ts) ==
  IF Len(ts) # 0 THEN RoundPercent(CountCompleted(ts), Len(ts)) ELSE 0

\* StudentDashboard: the four columns at time t
TodayTasks(ts, t) == SelectSeq(ts, LAMBDA x : IsToday(x.dueDate, t) /\ ~x.completed)
UpcomingTasks(ts, t) ==
  SelectSeq(ts, LAMBDA x : /\ IsFuture(StartOfDay(x.dueDate), t)
                           /\ ~IsToday(x.dueDate, t)
                           /\ ~x.completed)
OverdueTasks(ts, t) ==
  SelectSeq(ts, LAMBDA x : /\ IsPast(StartOfDay(x.dueDate), t)
                           /\ ~IsToday(x.dueDate, t)
                           /\ ~x.completed)
CompletedTasks(ts) == SelectSeq(ts, LAMBDA x : x.completed)

\* AdminDashboard: the overdue filter of globalStats, notifications,
\* sortedStudents and filteredGlobalTasks
IsOverdueAdmin(x, t) == ~x.completed /\ IsPast(StartOfDay(x.dueDate), t)

\* AdminDashboard: globalStats at time t
GlobalStats(studs, all, t) ==
  [totalStudents |-> Len(studs),
   totalTasks |-> Len(all),
   completedTasks |-> CountCompleted(all),
   overdueTasks |-> Len(SelectSeq(all, LAMBDA x : IsOverdueAdmin(x, t))),
   completionRate |-> IF Len(all) # 0
                      THEN RoundPercent(CountCompleted(all), Len(all))
                      ELSE 0]

\* the mounted dashboard renders its statistics
RenderStudent ==
  /\ view = "student"
  /\ shown' = Some([completionRate |-> CompletionRate(tasks)])
  /\ UNCHANGED <<commonVars, calls, studentVars, adminVars, detailVars, subVars>>

RenderAdmin ==
  /\ view = "admin"
  /\ shown' = Some([completionRate |-> GlobalStats(students, allTasks, now).completionRate])
  /\ UNCHANGED <<commonVars, calls, studentVars, adminVars, detailVars, subVars>>

\* how many tasks the Completed column shows
CompletedCap == 10

\* Array.prototype.slice(0, n)
SliceFirst(s, n) == SubSeq(s, 1, IF Len(s) < n THEN Len(s) ELSE n)

\* StudentDashboard: the tasks handed to the Completed column
CompletedColumn(ts) == SliceFirst(CompletedTasks(ts), CompletedCap)

\* the student dashboard renders the Completed column
RenderCompleted ==
  /\ view = "student"
  /\ shown' = Some([completedColumn |-> CompletedColumn(tasks)])
  /\ UNCHANGED <<commonVars, calls, studentVars, adminVars, detailVars, subVars>>

\* Array.prototype.sort((a, b) => b.createdAt - a.createdAt): stable,
\* descending by creation time
RECURSIVE InsertByCreatedAtDesc(_, _)
InsertByCreatedAtDesc(t, sorted) ==
  IF sorted = <<>> THEN <<t>>
  ELSE IF sorted[Len(sorted)].createdAt >= t.createdAt
       THEN Append(sorted, t)
       ELSE Append(InsertByCreatedAtDesc(t, SubSeq(sorted, 1, Len(sorted) - 1)),
                   sorted[Len(sorted)])
RECURSIVE SortByCreatedAtDesc(_)
SortByCreatedAtDesc(s) ==
  IF s = <<>> THEN <<>>
  ELSE InsertByCreatedAtDesc(s[Len(s)], SortByCreatedAtDesc(SubSeq(s, 1, Len(s) - 1)))

\* handleStudentSelect: the student's tasks as fetched, newest first
StudentTasksOf(all, uid) ==
  SortByCreatedAtDesc(SelectSeq(all, LAMBDA x : x.userId = uid))

\* handleStudentSelect(student), for a student of the list
HandleStudentSelect ==
  /\ view = "admin"
  /\ \E i \in 1..Len(students) :
       /\ selectedStudent' = Some(students[i])
       /\ studentTasks' = StudentTasksOf(allTasks, students[i].uid)
  /\ chartRange' = "month"
  /\ UNCHANGED <<commonVars, calls, studentVars, adminVars, listVars, subVars, shown>>

\* the Weekly and Monthly buttons of the detail panel
ChartRanges == {"week", "month"}
SetChartRange ==
  /\ view = "admin"
  /\ selectedStudent # Nothing
  /\ \E r \in ChartRanges : chartRange' = r
  /\ UNCHANGED <<commonVars, calls, studentVars, adminVars, selectedStudent, studentTasks,
                 listVars, subVars, shown>>

\* PerformanceLineChart: subDays(today, 6)
WeekBack == 6

\* date-fns startOfMonth, endOfMonth, eachDayOfInterval and isSameDay, on
\* day numbers
StartOfMonth(day) ==
  LET c == CivilFromDays(day) IN DaysFromCivil(c[1], c[2], 1)
EndOfMonthThirtieth(day) == StartOfMonth(day) + 29
EndOfMonth(day) ==
  LET c == CivilFromDays(day) IN DaysFromCivil(c[1], c[2], DaysInMonth(c[1], c[2]))
EachDayOfInterval(first, last) == [k \in 1..(last - first + 1) |-> first + k - 1]
IsSameDay(ts, day) == ts # NaN /\ DayOf(ts) = day

\* PerformanceLineChart: the interval charted at time t
ChartStart(range, t) ==
  IF range = "week" THEN DayOf(t) - WeekBack ELSE StartOfMonth(DayOf(t))
ChartEnd(range, t) ==
  IF range = "week" THEN DayOf(t) ELSE EndOfMonth(DayOf(t))

\* JavaScript truthiness of t.completedAt
HasCompletedAt(x) ==
  "completedAt" \in DOMAIN x /\ x.completedAt \notin {Null, NaN, 0}

\* a count that looks at no day
ChartCountAnyDay(ts, day) ==
  Len(SelectSeq(ts, LAMBDA x : x.completed /\ HasCompletedAt(x)))

\* PerformanceLineChart: completedCount of a day
ChartCount(ts, day) ==
  Len(SelectSeq(ts, LAMBDA x : /\ x.completed
                               /\ HasCompletedAt(x)
                               /\ IsSameDay(x.completedAt, day)))

\* PerformanceLineChart: dataPoints
DataPoints(ts, range, t) ==
  LET daysInInterval == EachDayOfInterval(ChartStart(range, t), ChartEnd(range, t))
  IN [k \in 1..Len(daysInInterval) |->
        [fullDate |-> daysInInterval[k], count |-> ChartCount(ts, daysInInterval[k])]]

\* the detail panel renders its chart
RenderChart ==
  /\ view = "admin"
  /\ selectedStudent # Nothing
  /\ shown' = Some([range |-> chartRange,
                    dataPoints |-> DataPoints(studentTasks, chartRange, now)])
  /\ UNCHANGED <<commonVars, calls, studentVars, adminVars, detailVars, subVars>>

\* ------------------------------------------------------- the CSV export ---
\* Array.prototype.join(sep) of strings
RECURSIVE Join(_, _)
Join(cells, sep) ==
  IF cells = <<>> THEN <<>>
  ELSE IF Len(cells) = 1 THEN cells[1]
  ELSE cells[1] \o sep \o Join(Tail(cells), sep)

\* String(n) of a natural number
RECURSIVE NatToChars(_)
NatToChars(n) ==
  IF n < 10 THEN <<DigitChar(n)>> ELSE NatToChars(n \div 10) \o <<DigitChar(n % 10)>>

\* the role as the characters of its name
RoleChars(role) ==
  IF role = "ADMIN" THEN <<"A", "D", "M", "I", "N">>
  ELSE <<"S", "T", "U", "D", "E", "N", "T">>

\* handleExportUsers: headers
CsvHeaders ==
  << <<"D", "i", "s", "p", "l", "a", "y", " ", "N", "a", "m", "e">>,
     <<"E", "m", "a", "i", "l">>,
     <<"R", "o", "l", "e">>,
     <<"J", "o", "i", "n", "e", "d", " ", "D", "a", "t", "e">>,
     <<"T", "o", "t", "a", "l", " ", "T", "a", "s", "k", "s">>,
     <<"C", "o", "m", "p", "l", "e", "t", "e", "d", " ", "T", "a", "s", "k", "s">> >>

\* handleExportUsers: the row of student s
CsvRow(s, all) ==
  LET sTasks == SelectSeq(all, LAMBDA x : x.userId = s.uid)
  IN Join(<<s.displayName, s.email, RoleChars(s.role), Format(s.createdAt),
            NatToChars(Len(sTasks)), NatToChars(CountCompleted(sTasks))>>, <<",">>)

\* handleExportUsers: csvContent
CsvPrefix ==
  <<"d", "a", "t", "a", ":", "t", "e", "x", "t", "/", "c", "s", "v", ";",
    "c", "h", "a", "r", "s", "e", "t", "=", "u", "t", "f", "-", "8", ",">>
CsvContent(studs, all) ==
  CsvPrefix \o Join(<<Join(CsvHeaders, <<",">>)>> \o [i \in 1..Len(studs) |-> CsvRow(studs[i], all)],
                    <<"\n">>)

\* encodeURI: letters, digits and ; , / ? : @ & = + $ - _ . ! ~ * ' ( ) #
\* stay as they are, every other character becomes its percent escape
EncodeURIChar(c) ==
  IF c = " " THEN <<"%", "2", "0">>
  ELSE IF c = "\n" THEN <<"%", "0", "A">>
  ELSE IF c = "%" THEN <<"%", "2", "5">>
  ELSE <<c>>
\* the pieces lo..hi of a sequence of strings, concatenated
RECURSIVE ConcatRange(_, _, _)
ConcatRange(pieces, lo, hi) ==
  IF lo > hi THEN <<>>
  ELSE IF lo = hi THEN pieces[lo]
  ELSE ConcatRange(pieces, lo, (lo + hi) \div 2)
         \o ConcatRange(pieces, (lo + hi) \div 2 + 1, hi)
EncodeURI(s) == ConcatRange([i \in 1..Len(s) |-> EncodeURIChar(s[i])], 1, Len(s))

\* what the browser downloads for a link to a data: URL: the fragment (from
\* the first #) is not part of the resource, the media type ends at the first
\* comma, the rest is percent-decoded
FirstIndex(s, c) ==
  IF \E i \in 1..Len(s) : s[i] = c
  THEN CHOOSE i \in 1..Len(s) : s[i] = c /\ \A j \in 1..(i - 1) : s[j] # c
  ELSE Len(s) + 1
UpTo(s, c) == SubSeq(s, 1, FirstIndex(s, c) - 1)
After(s, c) == SubSeq(s, FirstIndex(s, c) + 1, Len(s))
PercentDecodeAt(s, i) ==
  IF s[i] = "%" /\ i + 2 <= Len(s)
  THEN (IF SubSeq(s, i + 1, i + 2) = <<"2", "0">> THEN <<" ">>
        ELSE IF SubSeq(s, i + 1, i + 2) = <<"0", "A">> THEN <<"\n">>
        ELSE <<"%">>)
  ELSE IF (i > 1 /\ s[i - 1] = "%" /\ i + 1 <= Len(s))
            \/ (i > 2 /\ s[i - 2] = "%" /\ s[i - 1] # "%")
       THEN <<>>
       ELSE <<s[i]>>
PercentDecode(s) == ConcatRange([i \in 1..Len(s) |-> PercentDecodeAt(s, i)], 1, Len(s))
DataUrlBody(url) == PercentDecode(After(UpTo(url, "#"), ","))

\* handleExportUsers: the link is built and clicked, the file is downloaded
HandleExportUsers ==
  /\ view = "admin"
  /\ shown' = Some([encodedUri |-> EncodeURI(CsvContent(students, allTasks)),
                    download |-> DataUrlBody(EncodeURI(CsvContent(students, allTasks)))])
  /\ UNCHANGED <<commonVars, calls, studentVars, adminVars, detailVars, subVars>>

\* ------------------------------------------------------ notifications ---
\* notifications: 86400000 ms, a day
RecentJoinMs == TicksPerDay
\* notifications: the overdue count above which the warning is raised
OverdueThreshold == 20

\* Array.prototype.sort((a, b) => b.timestamp - a.timestamp): stable,
\* descending by timestamp
RECURSIVE InsertByTimestampDesc(_, _)
InsertByTimestampDesc(n, sorted) ==
  IF sorted = <<>> THEN <<n>>
  ELSE IF sorted[Len(sorted)].timestamp >= n.timestamp
       THEN Append(sorted, n)
       ELSE Append(InsertByTimestampDesc(n, SubSeq(sorted, 1, Len(sorted) - 1)),
                   sorted[Len(sorted)])
RECURSIVE SortByTimestampDesc(_)
SortByTimestampDesc(s) ==
  IF s = <<>> THEN <<>>
  ELSE InsertByTimestampDesc(s[Len(s)], SortByTimestampDesc(SubSeq(s, 1, Len(s) - 1)))

\* notifications: the entries for the students who joined after the threshold
JoinNotifications(studs, t) ==
  LET recent == SelectSeq(studs, LAMBDA s : s.createdAt > t - RecentJoinMs)
  IN [i \in 1..Len(recent) |->
        [id |-> <<"join", recent[i].uid>>, type |-> "info",
         timestamp |-> recent[i].createdAt]]

\* notifications: the overdue warning
OverdueNotifications(all, t) ==
  LET overdueCount == Len(SelectSeq(all, LAMBDA x : IsOverdueAdmin(x, t)))
  IN IF overdueCount > OverdueThreshold
     THEN <<[id |-> <<"od-spike">>, type |-> "warning", timestamp |-> t]>>
     ELSE <<>>

\* notifications, computed at time t
Notifications(studs, all, t) ==
  SortByTimestampDesc(JoinNotifications(studs, t) \o OverdueNotifications(all, t))

\* useMemo(..., [students, allTasks]): computed when the lists change, and
\* kept until they change again
ComputeNotifications ==
  /\ view = "admin"
  /\ shown = Nothing
  /\ shown' = Some([notifications |-> Notifications(students, allTasks, now)])
  /\ UNCHANGED <<commonVars, calls, studentVars, adminVars, detailVars, subVars>>

\* String.prototype.toLowerCase and includes, on the letters a name, an
\* address or a title holds
LowerOf(c) ==
  IF c = "A" THEN "a" ELSE IF c = "B" THEN "b" ELSE IF c = "K" THEN "k" ELSE c
ToLowerCase(s) == [i \in 1..Len(s) |-> LowerOf(s[i])]
StrIncludes(s, q) == \E i \in 0..(Len(s) - Len(q)) : SubSeq(s, i + 1, i + Len(q)) = q

\* String.prototype.localeCompare: the letters are compared without their
\* case first, and only strings equal that way by case, lower case first
Alphabet == <<"@", ".", "a", "b", "k", "m", "x">>
PrimaryKey(s) == [i \in 1..Len(s) |-> CHOOSE k \in 1..Len(Alphabet) : Alphabet[k] = LowerOf(s[i])]
CaseKey(s) == [i \in 1..Len(s) |-> IF LowerOf(s[i]) = s[i] THEN 0 ELSE 1]
RECURSIVE KeyCompare(_, _)
KeyCompare(a, b) ==
  IF a = <<>> THEN (IF b = <<>> THEN 0 ELSE -1)
  ELSE IF b = <<>> THEN 1
  ELSE IF Head(a) # Head(b) THEN (IF Head(a) < Head(b) THEN -1 ELSE 1)
  ELSE KeyCompare(Tail(a), Tail(b))
LocaleCompare(a, b) ==
  IF KeyCompare(PrimaryKey(a), PrimaryKey(b)) # 0
  THEN KeyCompare(PrimaryKey(a), PrimaryKey(b))
  ELSE KeyCompare(CaseKey(a), CaseKey(b))

\* the directory's sort options
SortOptions == {"name", "consistency", "overdue", "completion"}

\* sortedStudents: the count of overdue tasks the comparator uses
DirectoryOverdue(ts, t) == Len(SelectSeq(ts, LAMBDA x : IsOverdueAdmin(x, t)))

\* sortedStudents: the comparator, as the sign of what it returns (the two
\* rates are compared by cross-multiplying)
DirectoryCompare(a, b, all, option, t) ==
  LET tasksA == SelectSeq(all, LAMBDA x : x.userId = a.uid)
      tasksB == SelectSeq(all, LAMBDA x : x.userId = b.uid)
      sign(n) == IF n < 0 THEN -1 ELSE IF n > 0 THEN 1 ELSE 0
  IN IF option = "consistency" THEN sign(CountCompleted(tasksB) - CountCompleted(tasksA))
     ELSE IF option = "overdue"
     THEN sign(DirectoryOverdue(tasksB, t) - DirectoryOverdue(tasksA, t))
     ELSE IF option = "completion"
     THEN IF Len(tasksA) = 0 THEN sign(CountCompleted(tasksB))
          ELSE IF Len(tasksB) = 0 THEN sign(0 - CountCompleted(tasksA))
          ELSE sign(CountCompleted(tasksB) * Len(tasksA) - CountCompleted(tasksA) * Len(tasksB))
     ELSE LocaleCompare(a.displayName, b.displayName)

\* Array.prototype.sort with that comparator: stable
RECURSIVE InsertStudent(_, _, _, _, _)
InsertStudent(sorted, s, all, option, t) ==
  IF sorted = <<>> THEN <<s>>
  ELSE IF DirectoryCompare(sorted[Len(sorted)], s, all, option, t) <= 0
       THEN Append(sorted, s)
       ELSE Append(InsertStudent(SubSeq(sorted, 1, Len(sorted) - 1), s, all, option, t),
                   sorted[Len(sorted)])
RECURSIVE SortStudents(_, _, _, _)
SortStudents(studs, all, option, t) ==
  IF studs = <<>> THEN <<>>
  ELSE InsertStudent(SortStudents(SubSeq(studs, 1, Len(studs) - 1), all, option, t),
                     studs[Len(studs)], all, option, t)

\* sortedStudents
SortedStudents(studs, all, query, option, t) ==
  LET q == ToLowerCase(query)
      found == IF query # <<>>
               THEN SelectSeq(studs, LAMBDA s : \/ StrIncludes(ToLowerCase(s.displayName), q)
                                                \/ StrIncludes(ToLowerCase(s.email), q))
               ELSE studs
  IN SortStudents(found, all, option, t)

\* the directory as rendered with the given search text and sort option
DirectoryRendered(query, option) ==
  Some([sortedStudents |-> SortedStudents(students, allTasks, query, option, now)])

\* what the admin can type into the directory's search
SearchInputs == {<<>>, <<"b">>, <<"A", "B">>, <<"K">>}

\* the directory's search box: setSearchQuery, and the list is rendered anew
SetSearchQuery ==
  /\ view = "admin"
  /\ \E q \in SearchInputs :
       /\ searchQuery' = q
       /\ shown' = DirectoryRendered(q, sortOption)
  /\ UNCHANGED <<commonVars, calls, studentVars, adminVars, selectedStudent, studentTasks,
                 chartRange, sortOption, taskSearchQuery, taskFilterStatus, taskPage, subVars>>

\* the directory's sort menu: setSortOption, and the list is rendered anew
SetSortOption ==
  /\ view = "admin"
  /\ \E o \in SortOptions :
       /\ sortOption' = o
       /\ shown' = DirectoryRendered(searchQuery, o)
  /\ UNCHANGED <<commonVars, calls, studentVars, adminVars, selectedStudent, studentTasks,
                 chartRange, searchQuery, taskSearchQuery, taskFilterStatus, taskPage, subVars>>

\* AdminDashboard: tasksPerPage
TasksPerPage == 10

Min(a, b) == IF a <= b THEN a ELSE b
Max(a, b) == IF a >= b THEN a ELSE b

\* the task table's status filter
TaskStatuses == {"all", "completed", "pending", "overdue"}

\* filteredGlobalTasks at time t
FilteredGlobalTasks(all, query, status, t) ==
  LET searched == IF query # <<>>
                  THEN SelectSeq(all, LAMBDA x : StrIncludes(ToLowerCase(x.title),
                                                             ToLowerCase(query)))
                  ELSE all
      res == IF status = "completed" THEN SelectSeq(searched, LAMBDA x : x.completed)
             ELSE IF status = "pending"
             THEN SelectSeq(searched, LAMBDA x : /\ ~x.completed
                                                 /\ ~IsPast(StartOfDay(x.dueDate), t))
             ELSE IF status = "overdue"
             THEN SelectSeq(searched, LAMBDA x : IsOverdueAdmin(x, t))
             ELSE searched
  IN SortByCreatedAtDesc(res)

\* paginatedTasks: filteredGlobalTasks.slice(indexOfFirst, indexOfLast)
PaginatedTasks(filtered, page) ==
  LET indexOfLast == page * TasksPerPage
      indexOfFirst == indexOfLast - TasksPerPage
  IN SubSeq(filtered, indexOfFirst + 1, Min(indexOfLast, Len(filtered)))

\* totalTaskPages: Math.ceil(filteredGlobalTasks.length / tasksPerPage)
TotalTaskPages(filtered) == (Len(filtered) + TasksPerPage - 1) \div TasksPerPage

\* the filtered list and the page count as rendered now
FilteredNow == FilteredGlobalTasks(allTasks, taskSearchQuery, taskFilterStatus, now)
TotalNow == TotalTaskPages(FilteredNow)

\* an effect that leaves the page where it is
ResetPaginationNever(changed) == UNCHANGED taskPage

\* the effect on [taskSearchQuery, taskFilterStatus]: setTaskPage(1) when
\* either changed
ResetPagination(changed) == taskPage' = IF changed THEN 1 ELSE taskPage

\* what the admin can type into the task table's search
TaskSearchInputs == {<<>>, <<"b">>}

\* the task table's search box
SetTaskSearchQuery ==
  /\ view = "admin"
  /\ ~permissionError
  /\ \E q \in TaskSearchInputs :
       /\ taskSearchQuery' = q
       /\ ResetPagination(q # taskSearchQuery)
  /\ UNCHANGED <<commonVars, calls, studentVars, adminVars, selectedStudent, studentTasks,
                 chartRange, searchQuery, sortOption, taskFilterStatus, subVars, shown>>

\* the task table's status menu
SetTaskFilterStatus ==
  /\ view = "admin"
  /\ ~permissionError
  /\ \E f \in TaskStatuses :
       /\ taskFilterStatus' = f
       /\ ResetPagination(f # taskFilterStatus)
  /\ UNCHANGED <<commonVars, calls, studentVars, adminVars, selectedStudent, studentTasks,
                 chartRange, searchQuery, sortOption, taskSearchQuery, subVars, shown>>

\* the previous-page button: rendered with a non-empty list, disabled on
\* page 1
PrevTaskPage ==
  /\ view = "admin"
  /\ ~permissionError
  /\ Len(FilteredNow) # 0
  /\ taskPage # 1
  /\ taskPage' = Max(1, taskPage - 1)
  /\ UNCHANGED <<commonVars, calls, studentVars, adminVars, selectedStudent, studentTasks,
                 chartRange, searchQuery, sortOption, taskSearchQuery, taskFilterStatus,
                 subVars, shown>>

\* the next-page button: rendered with a non-empty list, disabled on the
\* last page
NextTaskPage ==
  /\ view = "admin"
  /\ ~permissionError
  /\ Len(FilteredNow) # 0
  /\ ~(taskPage = TotalNow \/ TotalNow = 0)
  /\ taskPage' = Min(TotalNow, taskPage + 1)
  /\ UNCHANGED <<commonVars, calls, studentVars, adminVars, selectedStudent, studentTasks,
                 chartRange, searchQuery, sortOption, taskSearchQuery, taskFilterStatus,
                 subVars, shown>>

\* a student deletes their newest task from their own dashboard
\* (handleDeleteTask in another session)
StudentDeletesTask ==
  /\ view = "admin"
  /\ DOMAIN store # {}
  /\ Calls
  /\ LET newest == CHOOSE i \in DOMAIN store : \A j \in DOMAIN store : j <= i
     IN store' = [i \in DOMAIN store \ {newest} |-> store[i]]
  /\ UNCHANGED <<view, now, user, nextId, studentVars, adminVars, detailVars, subVars, shown>>

\* ---------------------------------------------------- specification ---
\* a task the student added the day before, due on the day the run starts
EarlierTask == AddTaskDoc(StudentUid, <<"a">>, FormatDay(FirstDay + 1), NowStart - 1)
EarlierStore == [i \in {1} |-> EarlierTask]

\* the student's own profile
EarlierProfile ==
  [uid |-> StudentUid, email |-> <<"s", "@", "t", ".", "u">>, displayName |-> "s",
   role |-> "STUDENT", bio |-> "Student", createdAt |-> NowStart - 1]

\* the state after the dashboard of the signed-in user's role is mounted:
\* for the admin, the mount effect has called fetchData
Init ==
  /\ view \in {"student", "admin"}
  /\ now = NowStart
  /\ user = IF view = "student" THEN StudentUid ELSE AdminUid
  /\ store = EarlierStore
  /\ students = <<>>
  /\ allTasks = <<>>
  /\ loading = (view = "admin")
  /\ permissionError = FALSE
  /\ fetch = [c \in Callers |-> IF c = "mount" /\ view = "admin" THEN "users" ELSE "idle"]
  /\ fixingAccount = FALSE
  /\ pcFix = "idle"
  /\ isCreatingUser = FALSE
  /\ createUserError = ""
  /\ createUserSuccess = ""
  /\ pcCreate = "idle"
  /\ createReq = Nothing
  /\ apps = {}
  /\ secondaryUser = NoUser
  /\ lastDeleteApp = "none"
  /\ creds = {}
  /\ usersCol = <<EarlierProfile>>
  /\ selectedStudent = Nothing
  /\ studentTasks = <<>>
  /\ chartRange = "month"
  /\ searchQuery = <<>>
  /\ sortOption = "name"
  /\ taskSearchQuery = <<>>
  /\ taskFilterStatus = "all"
  /\ taskPage = 1
  /\ subs = (IF view = "student" THEN <<user>> ELSE <<>>)
  /\ effectUser = user
  /\ shown = Nothing
  /\ nextId = Cardinality(DOMAIN store) + 1
  /\ calls = 0
  /\ pending = <<>>
  /\ tasks = <<>>
  /\ isAdding = FALSE
  /\ taskToEdit = Nothing
  /\ editModalOpen = FALSE
  /\ isSavingEdit = FALSE
  /\ taskToDelete = Nothing
  /\ deleteModalOpen = FALSE

Next ==
  \/ Tick
  \/ Snapshot
  \/ HandleAddTask
  \/ AddDocResolve
  \/ AddDocReject
  \/ ToggleTask
  \/ ToggleResolve
  \/ ToggleReject
  \/ OpenEditModal
  \/ CloseEditModal
  \/ HandleUpdateTask
  \/ UpdateResolve
  \/ UpdateReject
  \/ ConfirmDeleteTask
  \/ CloseDeleteModal
  \/ HandleDeleteTask
  \/ DeleteResolve
  \/ DeleteReject
  \/ RetryFetch
  \/ FetchUsersResolve
  \/ FetchTasksResolve
  \/ FetchReject
  \/ FixAdminAccount
  \/ FixSetDocResolve
  \/ FixRefreshResolve
  \/ FixReject
  \/ FixFinish
  \/ HandleCreateUser
  \/ CreateCredentialResolve
  \/ CreateCredentialReject
  \/ CreateProfileResolve
  \/ CreateProfileReject
  \/ CreateSignOutResolve
  \/ CreateSignOutReject
  \/ CreateRefreshed
  \/ DeleteAppResolve
  \/ DeleteAppReject

Spec == Init /\ [][Next]_vars

\* ------------------------------------ the statistics of any task list ---
\* a task as far as the completion rate reads it
ListedTask(i, done) ==
  IF done
  THEN Merge(WithId(i, EarlierTask), [completed |-> TRUE, completedAt |-> NowStart])
  ELSE WithId(i, EarlierTask)
TaskLists ==
  UNION {{[i \in 1..n |-> ListedTask(i, f[i])] : f \in [1..n -> BOOLEAN]} : n \in 0..MaxListLen}

\* a dashboard holding any task list of up to MaxListLen tasks
InitStats ==
  /\ view \in {"student", "admin"}
  /\ now = NowStart
  /\ user = IF view = "student" THEN StudentUid ELSE AdminUid
  /\ store = EarlierStore
  /\ nextId = 2
  /\ calls = 0
  /\ pending = <<>>
  /\ \E l \in TaskLists :
       /\ tasks = IF view = "student" THEN l ELSE <<>>
       /\ allTasks = IF view = "admin" THEN l ELSE <<>>
  /\ isAdding = FALSE
  /\ taskToEdit = Nothing
  /\ editModalOpen = FALSE
  /\ isSavingEdit = FALSE
  /\ taskToDelete = Nothing
  /\ deleteModalOpen = FALSE
  /\ students = <<>>
  /\ loading = FALSE
  /\ permissionError = FALSE
  /\ fetch = [c \in Callers |-> "idle"]
  /\ fixingAccount = FALSE
  /\ pcFix = "idle"
  /\ isCreatingUser = FALSE
  /\ createUserError = ""
  /\ createUserSuccess = ""
  /\ pcCreate = "idle"
  /\ createReq = Nothing
  /\ apps = {}
  /\ secondaryUser = NoUser
  /\ lastDeleteApp = "none"
  /\ creds = {}
  /\ usersCol = <<EarlierProfile>>
  /\ selectedStudent = Nothing
  /\ studentTasks = <<>>
  /\ chartRange = "month"
  /\ searchQuery = <<>>
  /\ sortOption = "name"
  /\ taskSearchQuery = <<>>
  /\ taskFilterStatus = "all"
  /\ taskPage = 1
  /\ subs = (IF view = "student" THEN <<user>> ELSE <<>>)
  /\ effectUser = user
  /\ shown = Nothing

NextStats == RenderStudent \/ RenderAdmin

SpecStats == InitStats /\ [][NextStats]_vars

\* ------------------------------------------ views of any fetched data ---
\* a dashboard at rest: nothing in flight, no modal open, holding the given
\* lists at the given time
AtRestOn(st, v, t, ts, studs, all) ==
  /\ view = v
  /\ now = t
  /\ user = IF v = "student" THEN StudentUid ELSE AdminUid
  /\ store = st
  /\ nextId = Cardinality(DOMAIN st) + 1
  /\ calls = 0
  /\ pending = <<>>
  /\ tasks = ts
  /\ isAdding = FALSE
  /\ taskToEdit = Nothing
  /\ editModalOpen = FALSE
  /\ isSavingEdit = FALSE
  /\ taskToDelete = Nothing
  /\ deleteModalOpen = FALSE
  /\ students = studs
  /\ allTasks = all
  /\ loading = FALSE
  /\ permissionError = FALSE
  /\ fetch = [c \in Callers |-> "idle"]
  /\ fixingAccount = FALSE
  /\ pcFix = "idle"
  /\ isCreatingUser = FALSE
  /\ createUserError = ""
  /\ createUserSuccess = ""
  /\ pcCreate = "idle"
  /\ createReq = Nothing
  /\ apps = {}
  /\ secondaryUser = NoUser
  /\ lastDeleteApp = "none"
  /\ creds = {}
  /\ usersCol = <<EarlierProfile>>
  /\ selectedStudent = Nothing
  /\ studentTasks = <<>>
  /\ chartRange = "month"
  /\ searchQuery = <<>>
  /\ sortOption = "name"
  /\ taskSearchQuery = <<>>
  /\ taskFilterStatus = "all"
  /\ taskPage = 1
  /\ subs = (IF view = "student" THEN <<user>> ELSE <<>>)
  /\ effectUser = user
  /\ shown = Nothing
AtRest(v, t, ts, studs, all) == AtRestOn(EarlierStore, v, t, ts, studs, all)

\* how long a task list the Completed column is cut from
MaxColumnLen == 11

\* the i-th task of a snapshot: created one tick after the one before it
SnapshotTask(i, done) ==
  Merge(ListedTask(i, done), [createdAt |-> NowStart - MaxColumnLen - 2 + i])
SnapshotLists ==
  UNION {{[i \in 1..n |-> SnapshotTask(i, f[i])] : f \in [1..n -> BOOLEAN]} :
         n \in 0..MaxColumnLen}

\* a student dashboard holding any snapshot of up to MaxColumnLen tasks
InitColumn == \E l \in SnapshotLists : AtRest("student", NowStart, l, <<>>, <<>>)
NextColumn == RenderCompleted
SpecColumn == InitColumn /\ [][NextColumn]_vars

\* how long a task list the chart is drawn from
MaxChartLen == 2

\* the days the chart is looked at: in a leap February, a common February, at
\* the end of a 30-day month, on the first day of a year, on the day before it
ChartTodays ==
  {DaysFromCivil(2024, 2, 29), DaysFromCivil(2025, 2, 3), DaysFromCivil(2025, 4, 30),
   DaysFromCivil(2025, 1, 1), DayOf(NowStart)}

\* how many days before the chart is looked at a task was completed
ChartOffsets == {0, 1, 6, 7, 30}

\* a task never completed, one toggled on and off again, or one completed
\* so many days before day
ChartKinds == {<<"open">>, <<"reopened">>} \cup {<<"done", off>> : off \in ChartOffsets}
ChartTask(i, kind, day) ==
  LET created == [createdAt |-> DayStart(day - 40) + i]
  IN IF kind[1] = "open" THEN Merge(ListedTask(i, FALSE), created)
     ELSE IF kind[1] = "reopened"
     THEN Merge(ListedTask(i, FALSE), Merge(created, [completedAt |-> Null]))
     ELSE Merge(ListedTask(i, TRUE),
                Merge(created, [completedAt |-> DayStart(day - kind[2])]))
ChartLists(day) ==
  UNION {{[i \in 1..n |-> ChartTask(i, f[i], day)] : f \in [1..n -> ChartKinds]} :
         n \in 0..MaxChartLen}

\* an admin dashboard, late in the day, that fetched the student and any
\* list of up to MaxChartLen of the student's tasks
InitChart ==
  \E day \in ChartTodays : \E l \in ChartLists(day) :
    AtRest("admin", DayStart(day) + TicksPerDay - 1, <<>>, <<EarlierProfile>>, l)
NextChart == HandleStudentSelect \/ SetChartRange \/ RenderChart
SpecChart == InitChart /\ [][NextChart]_vars

\* how many students and how many tasks are exported
MaxExportStudents == 2
MaxExportTasks == 2

\* display names an account can have: plain, with a comma, with a #
ExportNames == {<<"A", "n", "n">>, <<"A", ",", "B">>, <<"A", "#", "1">>}
\* the uid of the i-th student fetched
FetchedUid(i) == "s" \o ToString(i)
ExportStudent(i, name) ==
  [uid |-> FetchedUid(i), email |-> <<"a", "@", "x", ".", "c", "o", "m">>, displayName |-> name,
   role |-> "STUDENT", bio |-> "Student", createdAt |-> NowStart - i]
ExportStudents ==
  UNION {{[i \in 1..n |-> ExportStudent(i, f[i])] : f \in [1..n -> ExportNames]} :
         n \in 0..MaxExportStudents}
ExportTask(i, kind) == Merge(ListedTask(i, kind[2]), [userId |-> kind[1]])
ExportTaskLists ==
  UNION {{[i \in 1..n |-> ExportTask(i, f[i])] :
          f \in [1..n -> {FetchedUid(i) : i \in 1..MaxExportStudents} \X BOOLEAN]} : n \in 0..MaxExportTasks}

\* an admin dashboard that fetched any such students and tasks
InitExport ==
  \E studs \in ExportStudents, l \in ExportTaskLists :
    AtRest("admin", NowStart, <<>>, studs, l)
NextExport == HandleExportUsers
SpecExport == InitExport /\ [][NextExport]_vars

\* how many students the notifications are computed over
MaxNotifStudents == 2

\* a student who joined exactly a day before the run starts, one tick later,
\* or a tick before the run starts
NotifJoinTimes == {NowStart - RecentJoinMs, NowStart - RecentJoinMs + 1, NowStart - 1}
NotifStudent(i, joined) ==
  [uid |-> FetchedUid(i), email |-> <<"a", "@", "x", ".", "c", "o", "m">>,
   displayName |-> <<"A", "n", "n">>, role |-> "STUDENT", bio |-> "Student",
   createdAt |-> joined]
NotifStudents ==
  UNION {{[i \in 1..n |-> NotifStudent(i, f[i])] : f \in [1..n -> NotifJoinTimes]} :
         n \in 0..MaxNotifStudents}

\* so many incomplete tasks due the day before the run starts, then so many
\* due on the day it starts
NotifCounts == {0, 1, OverdueThreshold, OverdueThreshold + 1}
NotifTasks(nBefore, nToday) ==
  [i \in 1..(nBefore + nToday) |->
     Merge(ListedTask(i, FALSE),
           [dueDate |-> IF i <= nBefore THEN NowStart - TicksPerDay ELSE NowStart])]

\* an admin dashboard that fetched any such students and tasks
InitNotif ==
  \E studs \in NotifStudents, nBefore \in NotifCounts, nToday \in NotifCounts :
    AtRest("admin", NowStart, <<>>, studs, NotifTasks(nBefore, nToday))
NextNotif == ComputeNotifications \/ Tick
SpecNotif == InitNotif /\ [][NextNotif]_vars

\* ------------------------------------- the student view and its session ---
\* a student dashboard, mounted and subscribed; the user may change and the
\* view may be torn down
InitSession == AtRest("student", NowStart, <<>>, <<>>, <<>>)
NextSession ==
  \/ UserChanges
  \/ RunEffect
  \/ Unmount
  \/ Snapshot
  \/ HandleAddTask
  \/ AddDocResolve
  \/ AddDocReject
  \/ ToggleTask
  \/ ToggleResolve
  \/ ToggleReject
  \/ OpenEditModal
  \/ CloseEditModal
  \/ HandleUpdateTask
  \/ UpdateResolve
  \/ UpdateReject
SpecSession == InitSession /\ [][NextSession]_vars

\* how many students and tasks the directory is sorted over
MaxDirStudents == 2
MaxDirTasks == 2

DirNames == {<<"a", "b">>, <<"B">>}
DirEmail(i) == <<(IF i = 1 THEN "k" ELSE "m"), "@", "x">>
DirStudent(i, name) ==
  [uid |-> FetchedUid(i), email |-> DirEmail(i), displayName |-> name,
   role |-> "STUDENT", bio |-> "Student", createdAt |-> NowStart - i]
\* the fetched students, in either order
DirStudents ==
  {<<>>}
    \cup {<<DirStudent(i, n)>> : i \in 1..MaxDirStudents, n \in DirNames}
    \cup {<<DirStudent(i, n), DirStudent(j, m)>> :
            i \in 1..MaxDirStudents, j \in 1..MaxDirStudents, n \in DirNames, m \in DirNames}
\* a task of a student: completed, or open and due yesterday or today
DirKinds == {"completed", "yesterday", "today"}
DirTask(i, uid, kind) ==
  [id |-> i, userId |-> uid, title |-> <<"a">>, completed |-> (kind = "completed"),
   dueDate |-> DayStart(DayOf(NowStart) - (IF kind = "yesterday" THEN 1 ELSE 0)),
   createdAt |-> DayStart(DayOf(NowStart) - 1) + i]
DirTaskLists ==
  UNION {{[i \in 1..n |-> DirTask(i, f[i][1], f[i][2])] :
          f \in [1..n -> {FetchedUid(i) : i \in 1..MaxDirStudents} \X DirKinds]} : n \in 0..MaxDirTasks}

\* an admin dashboard that fetched any such students and tasks, a tick after
\* midnight
InitDirectory ==
  \E studs \in DirStudents, l \in DirTaskLists :
    /\ Len(studs) = 2 => studs[1].uid # studs[2].uid
    /\ AtRest("admin", NowStart + 1, <<>>, studs, l)
NextDirectory == SetSearchQuery \/ SetSortOption
SpecDirectory == InitDirectory /\ [][NextDirectory]_vars

\* the admin's task table over a tasks collection of any of these sizes:
\* none, one, a full page, a page and one, two pages and one
MaxTablePages == 2
TableSizes == {0, 1} \cup {p * TasksPerPage : p \in 1..(MaxTablePages - 1)}
                     \cup {p * TasksPerPage + 1 : p \in 1..MaxTablePages}
\* the i-th document: titles "a" and "B" in turn; completed, due yesterday or
\* due today in turn; created in the ticks of the first day
TableDoc(i) ==
  [userId |-> StudentUid,
   title |-> IF i % 2 = 0 THEN <<"B">> ELSE <<"a">>,
   completed |-> (i % 3 = 0),
   dueDate |-> DayStart(DayOf(NowStart) - (IF i % 3 = 1 THEN 1 ELSE 0)),
   createdAt |-> DayStart(FirstDay) + (i % TicksPerDay)]
TableStore(n) == [i \in 1..n |-> TableDoc(i)]

\* an admin dashboard that fetched such a collection, a tick after midnight
InitTable ==
  \E n \in TableSizes :
    AtRestOn(TableStore(n), "admin", NowStart + 1, <<>>, <<EarlierProfile>>,
             DocsOf(TableStore(n), 1..n))
NextTable ==
  \/ SetTaskSearchQuery
  \/ SetTaskFilterStatus
  \/ PrevTaskPage
  \/ NextTaskPage
  \/ StudentDeletesTask
  \/ HandleCreateUser
  \/ CreateCredentialResolve
  \/ CreateCredentialReject
  \/ CreateProfileResolve
  \/ CreateProfileReject
  \/ CreateSignOutResolve
  \/ CreateSignOutReject
  \/ CreateRefreshed
  \/ DeleteAppResolve
  \/ DeleteAppReject
  \/ FetchUsersResolve
  \/ FetchTasksResolve
  \/ FetchReject
SpecTable == InitTable /\ [][NextTable]_vars

\* the detail panel on the same dashboards: a student is selected while
\* students delete tasks and accounts are created
NextDetail ==
  \/ HandleStudentSelect
  \/ StudentDeletesTask
  \/ HandleCreateUser
  \/ CreateCredentialResolve
  \/ CreateCredentialReject
  \/ CreateProfileResolve
  \/ CreateProfileReject
  \/ CreateSignOutResolve
  \/ CreateSignOutReject
  \/ CreateRefreshed
  \/ DeleteAppResolve
  \/ DeleteAppReject
  \/ FetchUsersResolve
  \/ FetchTasksResolve
  \/ FetchReject
SpecDetail == InitTable /\ [][NextDetail]_vars

\* how many tasks the student has when deleting
MaxDeleteTasks == 3

\* a student dashboard showing its tasks, from which tasks are deleted and to
\* which tasks are added
InitDelete ==
  \E n \in 1..MaxDeleteTasks :
    AtRestOn(TableStore(n), "student", NowStart,
             SnapshotTasks(TableStore(n), StudentUid), <<>>, <<>>)
NextDelete ==
  \/ Snapshot
  \/ HandleAddTask
  \/ AddDocResolve
  \/ AddDocReject
  \/ ConfirmDeleteTask
  \/ CloseDeleteModal
  \/ HandleDeleteTask
  \/ DeleteResolve
  \/ DeleteReject
SpecDelete == InitDelete /\ [][NextDelete]_vars

\* ----------------------------------------------------------- claims ---
Blank(title) == \A j \in 1..Len(title) : title[j] = " "
ValidDay(ts) == ts # NaN /\ ts = DayStart(DayOf(ts))
IsSet(docFields, field) == field \in DOMAIN docFields /\ docFields[field] # Null
Count(ts, P(_)) == Cardinality({i \in 1..Len(ts) : P(ts[i])})
AddsPending == {i \in 1..Len(pending) : pending[i].kind = "add"}
UpdatesPending == {i \in 1..Len(pending) : pending[i].kind = "update"}

\* C1: whatever the snapshot holds and whatever the time, the four columns
\* together hold every task once, and an incomplete task is in Overdue when
\* its due day is before today, in Today when it is today, in Upcoming when
\* it is after today
BucketsPartitionTasks ==
  /\ Len(OverdueTasks(tasks, now)) + Len(TodayTasks(tasks, now))
       + Len(UpcomingTasks(tasks, now)) + Len(CompletedTasks(tasks)) = Len(tasks)
  /\ \A i \in 1..Len(tasks) :
       ~tasks[i].completed =>
         /\ tasks[i].dueDate # NaN
         /\ Count(OverdueTasks(tasks, now), LAMBDA x : x.id = tasks[i].id)
              = IF DayOf(tasks[i].dueDate) < DayOf(now) THEN 1 ELSE 0
         /\ Count(TodayTasks(tasks, now), LAMBDA x : x.id = tasks[i].id)
              = IF DayOf(tasks[i].dueDate) = DayOf(now) THEN 1 ELSE 0
         /\ Count(UpcomingTasks(tasks, now), LAMBDA x : x.id = tasks[i].id)
              = IF DayOf(tasks[i].dueDate) > DayOf(now) THEN 1 ELSE 0

\* C2: every stored task has completedAt set exactly when completed is true
CompletedAtIffCompleted ==
  \A id \in DOMAIN store : IsSet(store[id], "completedAt") <=> store[id].completed

\* a second toggle, issued from a snapshot older than the first, has been
\* applied to a task the first had already completed
StaleToggleApplied ==
  /\ calls = 2
  /\ pending = <<>>
  /\ nextId = 2
  /\ \E i \in 1..Len(tasks) :
       /\ ~tasks[i].completed
       /\ tasks[i].id \in DOMAIN store
       /\ store[tasks[i].id].completed
       /\ store[tasks[i].id].completedAt = NowStart + 1

\* C3: a toggle request is for a task on screen, carries the fields completed
\* and completedAt and no other, completed being the opposite of what the
\* screen shows and completedAt a timestamp exactly when completed is true,
\* null otherwise; when the request settles, nothing else in the store changes
ToggleWritesOnlyCompletion ==
  [][/\ (Len(pending') > Len(pending) /\ pending'[Len(pending')].kind = "toggle") =>
          LET req == pending'[Len(pending')]
          IN /\ DOMAIN req.fields = {"completed", "completedAt"}
             /\ \E i \in 1..Len(tasks) :
                  /\ req.id = tasks[i].id
                  /\ req.fields.completed = ~tasks[i].completed
             /\ IF req.fields.completed
                THEN req.fields.completedAt = now
                ELSE req.fields.completedAt = Null
     /\ (pending # <<>> /\ Head(pending).kind = "toggle" /\ pending' = Tail(pending)) =>
          LET req == Head(pending)
          IN /\ DOMAIN store' = DOMAIN store
             /\ \A id \in DOMAIN store :
                  /\ id # req.id => store'[id] = store[id]
                  /\ \A f \in DOMAIN store[id] \ {"completed", "completedAt"} :
                       f \in DOMAIN store'[id] /\ store'[id][f] = store[id][f]
             /\ \/ store' = store
                \/ /\ store'[req.id].completed = req.fields.completed
                   /\ store'[req.id].completedAt = req.fields.completedAt
                   /\ DOMAIN store'[req.id] =
                        DOMAIN store[req.id] \cup {"completed", "completedAt"}]_vars

\* a task was toggled on and then off again
ToggledOff ==
  \E id \in DOMAIN store :
    /\ ~store[id].completed
    /\ "completedAt" \in DOMAIN store[id]
    /\ store[id].completedAt = Null
    /\ store[id].title = EarlierTask.title
    /\ store[id].dueDate = EarlierTask.dueDate

DueIsStartOfDay == \A id \in DOMAIN store : ValidDay(store[id].dueDate)

\* C7: the admin's overdue count is the number of incomplete tasks whose due
\* day is before today
AdminOverdueIsBeforeToday ==
  GlobalStats(students, allTasks, now).overdueTasks =
    Count(allTasks, LAMBDA x : /\ ~x.completed
                               /\ x.dueDate # NaN
                               /\ DayOf(x.dueDate) < DayOf(now))

\* C8: while handleCreateUser runs the secondary app exists and the flag is
\* up; once it has finished the app is gone, unless deleteApp itself failed,
\* and the flag is down either way
SecondaryAppDeleted ==
  /\ pcCreate # "idle" => SecondaryApp \in apps /\ isCreatingUser
  /\ pcCreate = "idle" =>
       /\ SecondaryApp \in apps => lastDeleteApp = "failed"
       /\ ~isCreatingUser

\* a failed creation has finished, and the deletion had failed too
CreateFailedDeleteFailed ==
  /\ pcCreate = "idle"
  /\ createUserError = "That email is already registered."
  /\ lastDeleteApp = "failed"
  /\ SecondaryApp \in apps
  /\ ~isCreatingUser

\* C9: the admin stays signed in as the admin; the new user is signed in on
\* the secondary auth instance from the credential's creation until the
\* sign-out, and nobody is signed in there once the sign-out has resolved
AdminSessionKept ==
  view = "admin" =>
    /\ user = AdminUid
    /\ pcCreate \in {"setDoc", "signOut"} =>
         secondaryUser # NoUser /\ secondaryUser = createReq[1].uid
    /\ pcCreate = "fetchData" => secondaryUser = NoUser

\* a user was created and the handler has finished
UserCreated ==
  /\ view = "admin"
  /\ pcCreate = "idle"
  /\ createUserSuccess # ""
  /\ creds # {}
  /\ Len(usersCol) = 2
  /\ user = AdminUid

\* C10: a flag is up only while its handler has a call in flight
LoadingFlagsReset ==
  /\ AddsPending = {} => ~isAdding
  /\ UpdatesPending = {} => ~isSavingEdit
  /\ (\A c \in Callers : fetch[c] = "idle") => ~loading
  /\ pcFix = "idle" => ~fixingAccount
  /\ pcCreate = "idle" => ~isCreatingUser

\* the mount's fetchData was refused and has finished
FetchRefused ==
  /\ view = "admin"
  /\ permissionError
  /\ \A c \in Callers : fetch[c] = "idle"
  /\ ~loading

\* C11: the Completed column shows at most CompletedCap tasks, the most
\* recently created completed ones, newest first
CompletedColumnNewestFirst ==
  shown # Nothing =>
    LET col == shown[1].completedColumn
        done == {i \in 1..Len(tasks) : tasks[i].completed}
    IN /\ Len(col) <= CompletedCap
       /\ Len(col) = IF Cardinality(done) < CompletedCap
                     THEN Cardinality(done) ELSE CompletedCap
       /\ \A k \in 1..Len(col) :
            /\ col[k].completed
            /\ Cardinality({i \in done : tasks[i].createdAt > col[k].createdAt}) = k - 1

SameMonth(d, e) ==
  CivilFromDays(d)[1] = CivilFromDays(e)[1] /\ CivilFromDays(d)[2] = CivilFromDays(e)[2]
ChartShown == shown # Nothing /\ selectedStudent # Nothing
RECURSIVE SumCounts(_)
SumCounts(points) ==
  IF points = <<>> THEN 0 ELSE Head(points).count + SumCounts(Tail(points))

\* C12: the chart has 7 points for the week, today and the 6 days before it
\* in order, and for the month one point for each day of the current month
\* in order, whatever the task list
ChartSeriesLength ==
  ChartShown =>
    LET points == shown[1].dataPoints
        today == DayOf(now)
    IN /\ \A k \in 1..(Len(points) - 1) : points[k + 1].fullDate = points[k].fullDate + 1
       /\ shown[1].range = "week" =>
            /\ Len(points) = 7
            /\ points[7].fullDate = today
       /\ shown[1].range = "month" =>
            /\ Len(points) =
                 Cardinality({d \in (today - 31)..(today + 31) : SameMonth(d, today)})
            /\ \A k \in 1..Len(points) : SameMonth(points[k].fullDate, today)

\* the month chart of an empty task list in February 2025 has 28 points
EmptyFebruaryChart ==
  /\ ChartShown
  /\ studentTasks = <<>>
  /\ shown[1].range = "month"
  /\ Len(shown[1].dataPoints) = 28

\* C20: the count of each charted day is the number of tasks that are
\* completed with a completion timestamp on that day; the counts add up to
\* no more than the number of completed tasks
ChartCountsCompletions ==
  ChartShown =>
    LET points == shown[1].dataPoints
        done == {i \in 1..Len(studentTasks) : studentTasks[i].completed}
    IN /\ \A k \in 1..Len(points) :
            points[k].count =
              Cardinality({i \in done : /\ IsSet(studentTasks[i], "completedAt")
                                        /\ DayOf(studentTasks[i].completedAt)
                                             = points[k].fullDate})
       /\ SumCounts(points) <= Cardinality(done)

\* the week chart counts one completion today next to a task toggled back
OneCountedOneReopened ==
  /\ ChartShown
  /\ shown[1].range = "week"
  /\ shown[1].dataPoints[7].count = 1
  /\ SumCounts(shown[1].dataPoints) = 1
  /\ Len(studentTasks) = 2
  /\ \E i \in 1..2 : /\ ~studentTasks[i].completed
                     /\ "completedAt" \in DOMAIN studentTasks[i]
                     /\ studentTasks[i].completedAt = Null

\* C13: the exported file is the header row followed by one row per fetched
\* student, in list order: display name, email, role, join date, number of
\* the student's tasks, number of them completed, joined by commas
CsvExportRows ==
  shown # Nothing =>
    LET rowOf(s) ==
          s.displayName \o <<",">> \o s.email \o <<",">> \o RoleChars(s.role) \o <<",">>
            \o FormatDay(DayOf(s.createdAt)) \o <<",">>
            \o NatToChars(Count(allTasks, LAMBDA x : x.userId = s.uid)) \o <<",">>
            \o NatToChars(Count(allTasks, LAMBDA x : x.userId = s.uid /\ x.completed))
        lines == <<Join(CsvHeaders, <<",">>)>> \o [i \in 1..Len(students) |-> rowOf(students[i])]
    IN shown[1].download = Join(lines, <<"\n">>)

\* C14: the notification list has one info entry for each student who joined
\* within the last 24 hours and none for any other, one warning when more
\* than OverdueThreshold tasks are overdue (incomplete, due before today)
\* and none otherwise, and is ordered newest first
NotificationsAsListed ==
  shown # Nothing =>
    LET list == shown[1].notifications
        recent == {i \in 1..Len(students) : students[i].createdAt > now - RecentJoinMs}
        overdue == Count(allTasks, LAMBDA x : /\ ~x.completed
                                              /\ x.dueDate # NaN
                                              /\ DayOf(x.dueDate) < DayOf(now))
    IN /\ \A i \in 1..Len(students) :
            Count(list, LAMBDA n : n.type = "info" /\ n.id = <<"join", students[i].uid>>)
              = IF i \in recent THEN 1 ELSE 0
       /\ Count(list, LAMBDA n : n.type = "info") = Cardinality(recent)
       /\ Count(list, LAMBDA n : n.type = "warning")
            = IF overdue > OverdueThreshold THEN 1 ELSE 0
       /\ \A k \in 1..(Len(list) - 1) : list[k].timestamp >= list[k + 1].timestamp

\* C15: every stored task has an owner, a signed-in user's id, and no step
\* changes it; a toggle or an edit request carries no owner field; an add
\* request is issued only while a user is signed in, for that user
OwnerFixedAtCreation ==
  /\ [](/\ \A id \in DOMAIN store :
             "userId" \in DOMAIN store[id] /\ store[id].userId \in SessionUsers \ {NoUser}
        /\ \A i \in 1..Len(pending) :
             IF pending[i].kind = "add"
             THEN pending[i].doc.userId \in SessionUsers \ {NoUser}
             ELSE "userId" \notin DOMAIN pending[i].fields)
  /\ [][/\ \A id \in DOMAIN store :
             id \in DOMAIN store' => store'[id].userId = store[id].userId
        /\ Len(pending') > Len(pending) /\ pending'[Len(pending')].kind = "add" =>
             user # NoUser /\ pending'[Len(pending')].doc.userId = user
        /\ user = NoUser => ~(isAdding' /\ ~isAdding)]_vars

\* a second account added a task of its own, and the first account's task
\* was toggled and keeps its owner
TwoOwners ==
  /\ \E id \in DOMAIN store : store[id].userId = "u2"
  /\ store[1].completed
  /\ store[1].userId = StudentUid

\* C17: there is at most one live listener, and it queries the user the
\* effect last ran with; there is none when that user is null and none once
\* the view is torn down, after which the task list no longer changes; no
\* listener is added while no user is signed in
OneSubscription ==
  /\ [](/\ Len(subs) <= 1
        /\ view = "student" =>
             subs = (IF effectUser = NoUser THEN <<>> ELSE <<effectUser>>)
        /\ view = "unmounted" => subs = <<>>)
  /\ [][/\ view = "unmounted" => tasks' = tasks
        /\ user = NoUser => Len(subs') <= Len(subs)
        /\ tasks' # tasks => \E i \in 1..Len(subs) : tasks' = SnapshotTasks(store, subs[i])]_vars

\* the view was torn down with a write in flight: the store has moved on,
\* the task list has not
TornDownAndStale ==
  /\ view = "unmounted"
  /\ user = "u2"
  /\ subs = <<>>
  /\ pending = <<>>
  /\ nextId > 2
  /\ tasks # SnapshotTasks(store, user)


\* a step in which a getDocs of fetchData rejected with err
FetchFailedWith(err) ==
  /\ shown' = Some([console |-> err])
  /\ \E c \in Callers : fetch[c] # "idle" /\ fetch'[c] = "idle"
  /\ shown' # shown \/ \E c \in Callers : fetch[c] = "users" /\ fetch'[c] = "idle"

\* C16: a fetchData that fails with the code 'permission-denied' or with a
\* message containing 'Missing or insufficient permissions' sets
\* permissionError, and while it is set the Access Denied screen stands in for
\* the dashboard (no account can be submitted); every start of fetchData
\* clears the flag; a failure with any other error leaves the flag as it was,
\* and nothing but a permission-denied failure raises it, so a fetch that ran
\* alone and succeeded ends with the flag false
PermissionErrorFollowsFetch ==
  [][/\ \A c \in Callers : fetch[c] = "idle" /\ fetch'[c] # "idle" => ~permissionError'
     /\ \A err \in FetchErrors :
          FetchFailedWith(err) =>
            IF \/ err.code = "permission-denied"
               \/ err.message # Nothing /\ Includes(err.message[1], "Missing or insufficient permissions")
            THEN permissionError'
            ELSE permissionError' = permissionError
     /\ permissionError' /\ ~permissionError =>
          /\ \E c \in Callers : fetch[c] # "idle" /\ fetch'[c] = "idle"
          /\ shown' # Nothing /\ shown'[1].console.code # "unavailable"
     /\ permissionError /\ pcCreate = "idle" =>
          pcCreate' = "idle" /\ createUserError' = createUserError]_vars

\* a fetch was refused with the permissions message under another code, and
\* the retry that followed cleared the flag and loaded the data
DeniedThenRetried ==
  /\ view = "admin"
  /\ shown # Nothing /\ shown[1].console.code = "unknown"
  /\ ~permissionError /\ ~loading
  /\ \A c \in Callers : fetch[c] = "idle"


\* title is raw without the blanks around it
IsTrimOf(title, raw) ==
  \E i \in 1..Len(raw), j \in 1..Len(raw) :
    /\ i <= j /\ raw[i] # " " /\ raw[j] # " "
    /\ \A k \in 1..Len(raw) : k < i \/ k > j => raw[k] = " "
    /\ title = SubSeq(raw, i, j)

\* C18: handleAddTask and handleUpdateTask return early on a title that is
\* empty or all blanks, so no request in flight carries one and every title
\* sent or stored is the typed title without the blanks around it; isAdding
\* and isSavingEdit are raised only in the step that issues such a request,
\* and a step that issues none leaves the edit modal and the task being
\* edited alone unless it is the modal's own close or a settled update
BlankTitleRejected ==
  /\ [](/\ \A title \in TitleInputs, dateStr \in DateInputs :
             Blank(title) =>
               /\ AddTaskReturnsEarly(user, title, dateStr, now)
               /\ UpdateTaskReturnsEarly(taskToEdit, title)
        /\ \A i \in AddsPending :
             ~Blank(pending[i].newTaskTitle)
               /\ IsTrimOf(pending[i].doc.title, pending[i].newTaskTitle)
        /\ \A i \in UpdatesPending :
             ~Blank(pending[i].editTitle)
               /\ IsTrimOf(pending[i].fields.title, pending[i].editTitle)
        /\ \A id \in DOMAIN store :
             ~Blank(store[id].title) /\ IsTrimOf(store[id].title, store[id].title))
  /\ [][/\ isAdding' /\ ~isAdding =>
             /\ pending' = Append(pending, pending'[Len(pending')])
             /\ pending'[Len(pending')].kind = "add"
        /\ isSavingEdit' /\ ~isSavingEdit =>
             /\ pending' = Append(pending, pending'[Len(pending')])
             /\ pending'[Len(pending')].kind = "update"
             /\ editModalOpen' = editModalOpen /\ taskToEdit' = taskToEdit
        /\ editModalOpen /\ pending' = pending =>
             /\ taskToEdit' = taskToEdit
             /\ editModalOpen' = editModalOpen \/ isSavingEdit' = isSavingEdit]_vars

\* a title typed with blanks around it was added, and the same typed into
\* the edit form of a task is on its way with the modal still open
PaddedTitleStoredTrimmed ==
  /\ editModalOpen /\ taskToEdit # Nothing /\ isSavingEdit
  /\ \E i \in UpdatesPending :
       /\ pending[i].editTitle = <<" ", "a", " ">>
       /\ pending[i].fields.title = <<"a">>
  /\ \E id \in DOMAIN store : id # 1 /\ store[id].title = <<"a">>


\* /^[^\s@]+@[^\s@]+\.[^\s@]+$/: no blank, one @ with something before it,
\* and after it a dot with something on either side
MatchesAddressPattern(e) ==
  /\ \A k \in 1..Len(e) : e[k] # " "
  /\ Cardinality({k \in 1..Len(e) : e[k] = "@"}) = 1
  /\ LET at == CHOOSE k \in 1..Len(e) : e[k] = "@"
     IN /\ at > 1
        /\ \E dot \in (at + 2)..(Len(e) - 1) : e[dot] = "."

\* the form messages handleCreateUser sets on an input it turns away
ValidationMessages ==
  {"Please enter a valid email address.", "Password must be at least 6 characters."}

\* C19: handleCreateUser goes on to the backend only with an email that
\* matches the address pattern and a password of at least 6 characters; a
\* submission it turns away sets one of the form messages and leaves the apps,
\* the credentials, the profiles, the secondary sign-in and isCreatingUser
\* alone; a call that rejects sets createUserError (the fixed messages for a
\* duplicate email, a weak password and missing permissions) and
\* createUserSuccess stays empty
CreateUserRejectsAndReports ==
  /\ [](/\ pcCreate # "idle" =>
             /\ createReq # Nothing
             /\ MatchesAddressPattern(createReq[1].email)
             /\ Len(createReq[1].password) >= 6
        /\ createUserError \in ValidationMessages =>
             pcCreate = "idle" /\ ~isCreatingUser /\ createUserSuccess = ""
        /\ createUserError # "" => createUserSuccess = "")
  /\ [][/\ pcCreate = "idle" /\ pcCreate' = "idle" /\ createUserError' # createUserError =>
             /\ createUserError' \in ValidationMessages
             /\ ~isCreatingUser /\ ~isCreatingUser'
             /\ UNCHANGED <<apps, creds, usersCol, secondaryUser, user, calls>>
        /\ isCreatingUser' /\ ~isCreatingUser => pcCreate = "idle" /\ pcCreate' = "createUser"
        /\ apps' # apps \/ creds' # creds \/ secondaryUser' # secondaryUser =>
             pcCreate # "idle" \/ pcCreate' = "createUser"
        /\ pcCreate \in {"createUser", "setDoc", "signOut"} /\ pcCreate' = "deleteApp" =>
             /\ createUserSuccess = "" /\ createUserSuccess' = ""
             /\ createUserError' # ""
             /\ pcCreate = "createUser" =>
                  createUserError' = (IF createReq[1].email \in creds
                                      THEN "That email is already registered."
                                      ELSE "Password is too weak.")
             /\ pcCreate = "setDoc" =>
                  createUserError' = "Access Denied: Please update Firestore Rules to allow Admins to create users."]_vars

\* an account got its credential but the write of its profile was refused,
\* and the next submission, with a short password, was turned away
RefusedThenTurnedAway ==
  /\ createUserError = "Password must be at least 6 characters."
  /\ creds # {}
  /\ \A i \in 1..Len(usersCol) : usersCol[i].email \notin creds
  /\ pcCreate = "idle" /\ ~isCreatingUser /\ apps = {}


\* s contains q when the case of the letters is ignored
ContainsIgnoringCase(s, q) ==
  \E i \in 0..(Len(s) - Len(q)) : \A j \in 1..Len(q) : LowerOf(s[i + j]) = LowerOf(q[j])

\* C21: the directory holds each student whose display name or email
\* contains the search text, case ignored, exactly once and no one else (all
\* students when the text is empty), ordered by the sort option: by display
\* name ascending, or with the number of completed tasks, the number of
\* overdue tasks (incomplete, due before today) or the completed share of the
\* tasks (0 without tasks) never rising down the list
DirectorySortedAsSelected ==
  shown # Nothing =>
    LET list == shown[1].sortedStudents
        matches(s) == \/ searchQuery = <<>>
                      \/ ContainsIgnoringCase(s.displayName, searchQuery)
                      \/ ContainsIgnoringCase(s.email, searchQuery)
        total(s) == Count(allTasks, LAMBDA x : x.userId = s.uid)
        done(s) == Count(allTasks, LAMBDA x : x.userId = s.uid /\ x.completed)
        overdue(s) == Count(allTasks, LAMBDA x : /\ x.userId = s.uid /\ ~x.completed
                                                 /\ x.dueDate # NaN
                                                 /\ DayOf(x.dueDate) < DayOf(now))
        \* done(a) / total(a) >= done(b) / total(b), a missing ratio being 0
        shareNotLess(a, b) ==
          IF total(b) = 0 \/ done(b) = 0 THEN TRUE
          ELSE total(a) # 0 /\ done(a) * total(b) >= done(b) * total(a)
    IN /\ \A i \in 1..Len(students) :
            Count(list, LAMBDA s : s = students[i]) = IF matches(students[i]) THEN 1 ELSE 0
       /\ Len(list) = Count(students, matches)
       /\ \A k \in 1..(Len(list) - 1) :
            LET a == list[k]
                b == list[k + 1]
            IN /\ sortOption = "name" => LocaleCompare(a.displayName, b.displayName) <= 0
               /\ sortOption = "consistency" => done(a) >= done(b)
               /\ sortOption = "overdue" => overdue(a) >= overdue(b)
               /\ sortOption = "completion" => shareNotLess(a, b)


\* the tasks of bucket follow one another as they do in list
SameRelativeOrder(bucket, list) ==
  \A i \in 1..Len(bucket), j \in 1..Len(bucket) :
    i < j => \E k \in 1..Len(list), l \in 1..Len(list) :
               k < l /\ list[k] = bucket[i] /\ list[l] = bucket[j]

Positions(list, from, to) ==
  [k \in 1..(Min(to + 1, Len(list)) - Min(from, Len(list))) |-> list[from + k]]
NewestFirst(list) == \A k \in 1..(Len(list) - 1) : list[k].createdAt >= list[k + 1].createdAt

\* C23: changing the task search text or the status filter puts the task
\* table back on page 1, and the page shown is always the slice of at most 10
\* tasks at positions (page-1)*10 .. page*10-1 of the filtered list, which is
\* sorted newest first
TablePageIsSliceAndResets ==
  /\ [](LET filtered == FilteredNow
            page == PaginatedTasks(filtered, taskPage)
        IN /\ NewestFirst(filtered)
           /\ \A k \in 1..Len(filtered) : \E m \in 1..Len(allTasks) : filtered[k] = allTasks[m]
           /\ Len(page) <= 10
           /\ page = Positions(filtered, (taskPage - 1) * 10, taskPage * 10 - 1))
  /\ [][(taskSearchQuery' # taskSearchQuery \/ taskFilterStatus' # taskFilterStatus)
        => taskPage' = 1]_vars
\* the second page of eleven tasks holds the oldest one alone
SecondPageShown ==
  /\ view = "admin"
  /\ taskPage = 2
  /\ Len(FilteredNow) = 11
  /\ Len(PaginatedTasks(FilteredNow, taskPage)) = 1
  /\ \A k \in 1..Len(FilteredNow) :
       PaginatedTasks(FilteredNow, taskPage)[1].createdAt <= FilteredNow[k].createdAt

HasProfile(email) == \E k \in 1..Len(usersCol) : usersCol[k].email = email

\* C24: when handleCreateUser has finished, the account is provisioned all
\* or nothing: a credential for the submitted email exists exactly when a
\* profile document with that email exists
ProvisioningAllOrNothing ==
  pcCreate = "idle" => \A email \in EmailInputs : email \in creds <=> HasProfile(email)

\* C25: in every admin state with a student selected, studentTasks is the
\* tasks of allTasks owned by that student, newest first, also after a later
\* fetchData replaced allTasks
StudentTasksFollowAllTasks ==
  (view = "admin" /\ selectedStudent # Nothing) =>
    /\ NewestFirst(studentTasks)
    /\ \A k \in 1..Len(studentTasks) :
         /\ studentTasks[k].userId = selectedStudent[1].uid
         /\ \E m \in 1..Len(allTasks) : allTasks[m] = studentTasks[k]
    /\ \A m \in 1..Len(allTasks) :
         allTasks[m].userId = selectedStudent[1].uid =>
           \E k \in 1..Len(studentTasks) : studentTasks[k] = allTasks[m]
    /\ Len(studentTasks) =
         Cardinality({m \in 1..Len(allTasks) : allTasks[m].userId = selectedStudent[1].uid})

\* the least number of pages of ten that hold count tasks
PagesFor(count) == CHOOSE n \in 0..count : n * 10 >= count /\ (n = 0 \/ (n - 1) * 10 < count)

\* C26: in every admin state 1 <= taskPage <= max(1, totalTaskPages), where
\* totalTaskPages is the filtered count over ten, rounded up, whatever the
\* admin pages, filters or searches and whenever fetchData replaces the list
TaskPageInRange ==
  view = "admin" =>
    /\ TotalNow = PagesFor(Len(FilteredNow))
    /\ 1 <= taskPage
    /\ taskPage <= Max(1, TotalNow)

\* the completed flag a task has just before the j-th request in flight is
\* applied: what the last toggle of it in flight before j writes, or what the
\* store holds
CompletedBefore(j) ==
  LET earlier == {i \in 1..(j - 1) : pending[i].kind = "toggle" /\ pending[i].id = pending[j].id}
  IN IF earlier = {} THEN store[pending[j].id].completed
     ELSE pending[CHOOSE i \in earlier : \A k \in earlier : k <= i].fields.completed

\* C27: two toggleTask invocations on the same task leave completed at its
\* original value, wherever the snapshot that reflects the first falls: each
\* toggle, also one issued from the stale task object, writes the opposite of
\* the value the task has when the write is applied
TogglePairRestores ==
  \A j \in 1..Len(pending) :
    (pending[j].kind = "toggle" /\ pending[j].id \in DOMAIN store) =>
      pending[j].fields.completed = ~CompletedBefore(j)

\* C28: fetchData updates students and allTasks together or not at all: once
\* the fetch made on mount has failed, at the users query or at the tasks
\* query, and nothing else was started, both lists are what they were before
\* it, empty
FailedFetchKeepsBothLists ==
  (/\ view = "admin"
   /\ calls = 0
   /\ \A c \in Callers : fetch[c] = "idle"
   /\ shown # Nothing
   /\ "console" \in DOMAIN shown[1])
  => students = <<>> /\ allTasks = <<>>

\* C29: every task this client has written is due on its creation day or
\* later, whatever handleAddTask and handleUpdateTask were called with: the
\* rejection of past dates cannot be bypassed by editing
DueNotBeforeCreation ==
  \A id \in DOMAIN store :
    ~(store[id].dueDate # NaN /\ DayOf(store[id].dueDate) < DayOf(store[id].createdAt))

ShownIds == {tasks[i].id : i \in 1..Len(tasks)}

\* C30: a task document is deleted only for an id passed to confirmDeleteTask
\* and then confirmed: taskToDelete is set only to the id of a task on screen,
\* with the modal opened; handleDeleteTask requests nothing when taskToDelete
\* is null and otherwise the deletion of that one task; a document leaves the
\* store only when such a request settles, alone; and when handleDeleteTask
\* finishes, by success or failure, taskToDelete is null, so that a further
\* confirmation requests nothing
DeleteOnlyConfirmed ==
  /\ [][(taskToDelete' # taskToDelete /\ taskToDelete' # Nothing)
          => (taskToDelete'[1] \in ShownIds /\ deleteModalOpen')]_vars
  /\ [][(Len(pending') > Len(pending) /\ pending'[Len(pending')].kind = "delete")
          => /\ taskToDelete # Nothing
             /\ deleteModalOpen
             /\ pending' = Append(pending, [kind |-> "delete", id |-> taskToDelete[1]])]_vars
  /\ [][(DOMAIN store \ DOMAIN store') # {}
          => /\ pending # <<>>
             /\ Head(pending).kind = "delete"
             /\ DOMAIN store \ DOMAIN store' = {Head(pending).id}]_vars
  /\ [][(pending # <<>> /\ Head(pending).kind = "delete" /\ pending' = Tail(pending))
          => taskToDelete' = Nothing]_vars
\* a confirmed task is gone, nothing is in flight, no task is held for
\* deletion and the modal is still there to be confirmed again
DeletedAndCleared ==
  /\ view = "student"
  /\ calls >= 1
  /\ pending = <<>>
  /\ 1 \notin DOMAIN store
  /\ taskToDelete = Nothing
  /\ deleteModalOpen

=============================================================================
